---- MODULE Spec2Model ----
(***************************************************************************)
(* Model of the cometbft-ts light-client commit verifier.                  *)
(*                                                                         *)
(* verifyCommit (src/src/lightclient.ts) is modelled as a state machine:   *)
(* one action for the precondition block, one action per branch of the     *)
(* per-signature loop, one action per way the awaited Ed25519 verification *)
(* settles, and one action for the return.  The arguments of the call      *)
(* (SignedHeader, ValidatorSet, CryptoIndex) are drawn in Init.            *)
(*                                                                         *)
(* Conventions                                                             *)
(*   - an optional value (undefined / present) is <<>> or <<x>>;           *)
(*   - a Uint8Array is a sequence of bytes 0..255;                         *)
(*   - a JS string of hex digits is a sequence of one-character strings;   *)
(*   - a JS number is a record [num, den] (den > 0) so that non-integers   *)
(*     exist; bigint values are TLA+ integers (unbounded).                 *)
(*                                                                         *)
(* importValidators (src/src/validators.ts) is a second state machine, one *)
(* action per throw, per await and per accepted entry; importCommit        *)
(* (src/src/commit.ts), a synchronous function, is an operator applied by  *)
(* one action per way it ends.  Their JSON arguments are drawn in          *)
(* ImportInit; the voting powers they parse are bigints of 16-bit limbs.   *)
(*                                                                         *)
(* Further specifications put the same actions in other callers:           *)
(*   - ConcurrentSpec: two invocations of verifyCommit on the same         *)
(*     arguments, interleaved at their awaits;                             *)
(*   - ReorderSpec: a caller that verifies, puts the validators of the set *)
(*     in another order and verifies again;                                *)
(*   - ClientSpec: verifyCommit called on what the two imports returned.   *)
(***************************************************************************)
EXTENDS Integers, Sequences, FiniteSets, TLC

VARIABLES
    sh,            \* argument: the SignedHeader
    vset,          \* argument: the ValidatorSet
    cryptoIndex,   \* argument: Map<string, CryptoKey>
    pc,            \* position of the invocation
    setByAddrHex,  \* local: address -> validator map (lightclient.ts:86)
    idx,           \* local: loop index, 1-based (lightclient.ts:116)
    signedPower,   \* local accumulator (lightclient.ts:111)
    unknown,       \* local list (lightclient.ts:112)
    invalid,       \* local list (lightclient.ts:113)
    counted,       \* local counter (lightclient.ts:114)
    outcome,       \* the settled promise: <<>> or <<VerifyOutcome>>
    baseline,      \* the caller's copy of an earlier outcome: <<>> or <<VerifyOutcome>>
    flipped,       \* index of the signature the caller corrupted, 0 if none
    suspended,     \* the frame of a second invocation that is not running: <<>> or <<Frame>>
    reordered,     \* whether the caller has reordered the validators of the set
    resp,          \* importValidators: the argument (ValidatorJson)
    ipc,           \* importValidators: position of the invocation
    vi,            \* importValidators: index of the entry v, 1-based (validators.ts:18)
    seen,          \* importValidators: local Set<string> (validators.ts:9)
    keyIndex,      \* importValidators: local cryptoIndex map (validators.ts:10)
    protoValidators, \* importValidators: local list (validators.ts:11)
    countedPower,  \* importValidators: local accumulator (validators.ts:16)
    keyHandle,     \* importValidators: local key, the handle of the entry (validators.ts:34)
    imported,      \* importValidators: the settled promise, <<>> or <<result>>
    importError,   \* importValidators: message of the rejection, "" if none
    cresp,         \* importCommit: the argument (CommitResponse)
    cpc,           \* importCommit: position of the call
    signedHeader,  \* importCommit: the value returned, <<>> or <<ProtoSignedHeader>>
    commitError    \* importCommit: message of the exception, "" if none

\* the state of verifyCommit and of its caller
verifier == <<sh, vset, cryptoIndex, pc, setByAddrHex, idx, signedPower,
              unknown, invalid, counted, outcome, baseline, flipped, suspended,
              reordered>>

\* the state of importValidators
validatorsImporter == <<resp, ipc, vi, seen, keyIndex, protoValidators,
                        countedPower, keyHandle, imported, importError>>

\* the state of importCommit
commitImporter == <<cresp, cpc, signedHeader, commitError>>

importer == <<validatorsImporter, commitImporter>>

vars == <<verifier, importer>>

----------------------------------------------------------------------------
(* Bounds of the model *)

\* longest commit.signatures sequence explored
MaxSigs == 2

\* largest validator set explored
MaxVals == 2

\* voting powers given to validators
VotingPowers == {1, 2}

----------------------------------------------------------------------------
(* Generic helpers *)

Some(x) == <<x>>

None == <<>>

\* a ?? d
Coalesce(opt, d) == IF opt = <<>> THEN d ELSE opt[1]

\* the sequences over S of length lo..hi
SeqsUpTo(S, lo, hi) == UNION {[1..n -> S] : n \in lo..hi}

RECURSIVE SumSeq(_)
SumSeq(s) == IF s = <<>> THEN 0 ELSE s[1] + SumSeq(Tail(s))

Num(n) == [num |-> n, den |-> 1]

\* Number.isInteger
NumberIsInteger(x) == x.num % x.den = 0

----------------------------------------------------------------------------
(* Hex encoding of addresses *)

HexDigits == <<"0", "1", "2", "3", "4", "5", "6", "7",
               "8", "9", "a", "b", "c", "d", "e", "f">>

RECURSIVE Uint8ArrayToHex(_)
Uint8ArrayToHex(bytes) ==
    IF bytes = <<>> THEN <<>>
    ELSE <<HexDigits[(bytes[1] \div 16) + 1], HexDigits[(bytes[1] % 16) + 1]>>
         \o Uint8ArrayToHex(Tail(bytes))

UpperChar(c) ==
    CASE c = "a" -> "A" [] c = "b" -> "B" [] c = "c" -> "C"
      [] c = "d" -> "D" [] c = "e" -> "E" [] c = "f" -> "F"
      [] OTHER -> c

\* String.prototype.toUpperCase
ToUpperCase(s) == [i \in 1..Len(s) |-> UpperChar(s[i])]

\* Uint8ArrayToHex(x).toUpperCase()
AddrHex(bytes) == ToUpperCase(Uint8ArrayToHex(bytes))

----------------------------------------------------------------------------
(* Canonical sign-bytes and Ed25519 *)

\* out[0] = 0x71
CanonicalPrefix == 113

\* SignedMsgType.SIGNED_MSG_TYPE_PRECOMMIT
PrecommitType == 2

\* BLOCK_ID_FLAG_COMMIT
BlockIdFlagCommit == 2

\* the sign-bytes with the part-set hash left out of the vote
makePrecommitSignBytesNoPartsHash(chainId, height, round, bidHash, total, psHash, ts) ==
    LET psh  == [total |-> total, hash |-> <<>>]
        bid  == [hash |-> bidHash, partSetHeader |-> psh]
        vote == [type |-> PrecommitType, height |-> height, round |-> round,
                 blockId |-> bid, timestamp |-> ts, chainId |-> chainId]
    IN  [prefix |-> CanonicalPrefix, body |-> vote]

makePrecommitSignBytesProto(chainId, height, round, bidHash, total, psHash, ts) ==
    LET psh  == [total |-> total, hash |-> psHash]
        bid  == [hash |-> bidHash, partSetHeader |-> psh]
        vote == [type |-> PrecommitType, height |-> height, round |-> round,
                 blockId |-> bid, timestamp |-> ts, chainId |-> chainId]
    IN  [prefix |-> CanonicalPrefix, body |-> vote]

\* An Ed25519 signature is modelled by what it is a signature of: the raw key
\* of the signer, the message signed, and an XOR mask applied to the 64 bytes
\* afterwards (0: the bytes as the signer produced them).
Ed25519Sign(rawKey, msg) == <<[signer |-> rawKey, msg |-> msg, mask |-> 0]>>

\* crypto.subtle.verify({name: "Ed25519"}, key, signature, data):
\* rejects when the key handle does not carry the "verify" usage, otherwise
\* resolves to whether the signature is the signer's signature of the data.
Ed25519Verify(key, signature, data) ==
    IF "verify" \notin key.usages THEN "rejects"
    ELSE IF /\ signature[1].signer = key.raw
            /\ signature[1].msg = data
            /\ signature[1].mask = 0
         THEN "true" ELSE "false"

----------------------------------------------------------------------------
(* The arguments explored *)

ChainId == "test-chain"

SignedHeight == 12

OtherHeight == 13

\* The block the validators voted for, and one-bit variations of its hashes
SignedBlockHash == <<170, 16>>

TamperedBlockHash == <<170, 17>>

SignedPartsHash == <<187, 32>>

TamperedPartsHash == <<187, 160>>

SignedPartsTotal == Num(1)

\* Address and raw public key of validator i; 0 is a key holder that is in no
\* validator set (its address is the 0xFF.. address of the tests).
Address(i) == IF i = 0 THEN <<255, 255>> ELSE <<i, 171>>

PubKeyRaw(i) == <<i, i>>

VoteTime(i) == Some([seconds |-> 1700000000 + i, nanos |-> 0])

Validator(i, power) ==
    [address |-> Address(i), pubKeyBytes |-> PubKeyRaw(i),
     pubKeyType |-> "ed25519", votingPower |-> power]

\* What validator i signed at consensus time
SignedBytes(i) ==
    makePrecommitSignBytesProto(ChainId, SignedHeight, 0, SignedBlockHash,
                                SignedPartsTotal, SignedPartsHash, VoteTime(i))

SigKinds == {"empty", "own", "other"}

\* A commit signature entry carrying the address of key holder a: without
\* signature bytes, with a's own signature, or with the signature of another
\* key holder over a's vote.
SigEntry(flag, a, kind) ==
    [blockIdFlag |-> flag,
     validatorAddress |-> Address(a),
     timestamp |-> VoteTime(a),
     signature |-> CASE kind = "empty" -> <<>>
                     [] kind = "own"   -> Ed25519Sign(PubKeyRaw(a), SignedBytes(a))
                     [] OTHER          -> Ed25519Sign(PubKeyRaw(a + 1), SignedBytes(a))]

BlockIdFlags == {1, BlockIdFlagCommit, 3}

\* The key holders whose entries appear in commits: 0 (in no validator set),
\* validator 1 and validator 2 (in no set of a single validator).
SigHolders == {0, 1, 2}

\* Commit votes of every holder and kind; non-Commit entries of every holder
\* with the holder's signature, one without signature bytes, and a Nil entry
\* with the holder's signature.
SigEntries ==
    {SigEntry(BlockIdFlagCommit, a, k) : a \in SigHolders, k \in SigKinds}
    \cup {SigEntry(1, a, "own") : a \in SigHolders}
    \cup {SigEntry(1, 1, "empty")}
    \cup {SigEntry(3, 2, "own")}

GoodHeader ==
    [chainId |-> ChainId, height |-> SignedHeight,
     time |-> Some([seconds |-> 1700000000, nanos |-> 0]), appHash |-> <<1>>]

BlockID(hash, total, partsHash) ==
    [hash |-> hash, partSetHeader |-> Some([total |-> total, hash |-> partsHash])]

Commit(height, blockId, sigs) ==
    [height |-> height, round |-> 0, blockId |-> blockId, signatures |-> sigs]

\* CryptoKey handles: as importValidators builds them, or without "verify"
CryptoKey(raw, usages) == [raw |-> raw, usages |-> usages]

KeyStates == {"ok", "absent", "nousage"}

\* the key states explored for the validator set of powers pw: at most one
\* handle that is not usable when every power is 1, every handle usable otherwise
KeyStatesFor(pw) ==
    IF \A i \in 1..Len(pw) : pw[i] = 1
    THEN {st \in [1..Len(pw) -> KeyStates] :
            Cardinality({i \in 1..Len(pw) : st[i] # "ok"}) <= 1}
    ELSE {[i \in 1..Len(pw) |-> "ok"]}

\* the CryptoIndex in which validator i's handle is in state st[i]
CryptoIndexOf(n, st) ==
    LET present == {i \in 1..n : st[i] # "absent"}
        who(h)  == CHOOSE i \in present : AddrHex(Address(i)) = h
    IN  [h \in {AddrHex(Address(i)) : i \in present} |->
            CryptoKey(PubKeyRaw(who(h)),
                      IF st[who(h)] = "ok" THEN {"verify"} ELSE {})]

\* The blocks a commit may name: the signed one, or one with a bit of a hash
\* flipped.
CommitBlocks ==
    {<<SignedBlockHash, SignedPartsHash>>,
     <<TamperedBlockHash, SignedPartsHash>>,
     <<SignedBlockHash, TamperedPartsHash>>}

\* A validator set as importValidators returns it: powers pw, total their sum
ImportedValidatorSet(pw) ==
    [validators |-> [i \in 1..Len(pw) |-> Validator(i, Some(pw[i]))],
     totalVotingPower |-> Some(SumSeq(pw))]

UnitPowers(n) == [i \in 1..n |-> 1]

\* tampered blocks are explored for the sets whose validators all have power 1
CommitBlocksFor(pw) ==
    IF pw = UnitPowers(Len(pw)) THEN CommitBlocks
    ELSE {<<SignedBlockHash, SignedPartsHash>>}

\* Hand-built arguments, as the precondition tests build them: header or
\* commit missing, heights differing, block id fields missing, empty or
\* invalid; validator sets that are empty, repeat an address, lack a power or
\* carry a total that is missing, zero, negative or not the sum.
PartsTotals == {Num(1), Num(0), Num(-1), [num |-> 3, den |-> 2]}

BlockIdOptions ==
    {None}
    \cup {Some([hash |-> h, partSetHeader |-> None]) :
            h \in {<<>>, SignedBlockHash}}
    \cup {Some(BlockID(h, t, ph)) :
            h \in {<<>>, SignedBlockHash}, t \in PartsTotals,
            ph \in {<<>>, SignedPartsHash}}

GoodSignedHeader(bid) ==
    [header |-> Some(GoodHeader),
     commit |-> Some(Commit(SignedHeight, bid,
                            <<SigEntry(BlockIdFlagCommit, 1, "own")>>))]

SignedHeaderOptions ==
    {[header |-> hd, commit |-> cm] :
        hd \in {None, Some(GoodHeader)},
        cm \in {None} \cup
               {Some(Commit(ht, bid, <<SigEntry(BlockIdFlagCommit, 1, "own")>>)) :
                    ht \in {SignedHeight, OtherHeight}, bid \in BlockIdOptions}}

PowerOf(v) == Coalesce(v.votingPower, 0)

RECURSIVE SumPowers(_)
SumPowers(vals) ==
    IF vals = <<>> THEN 0 ELSE PowerOf(vals[1]) + SumPowers(Tail(vals))

ValidatorOptions ==
    {Validator(i, p) : i \in 1..MaxVals,
                       p \in {None} \cup {Some(q) : q \in VotingPowers}}

ValidatorSetOptions ==
    {[validators |-> vals, totalVotingPower |-> t] :
        vals \in SeqsUpTo(ValidatorOptions, 0, MaxVals),
        t \in {None, Some(0), Some(-1), Some(1)}}
    \cup
    {[validators |-> vals, totalVotingPower |-> Some(SumPowers(vals))] :
        vals \in SeqsUpTo(ValidatorOptions, 0, MaxVals)}

----------------------------------------------------------------------------
(* verifyCommit: the precondition block (lightclient.ts:67-102) *)

\* setByAddrHex after the loop of lines 87-91 over vals[i..], starting from
\* map m; dup is set when line 89 throws.
RECURSIVE BuildSetByAddrHex(_, _, _)
BuildSetByAddrHex(vals, i, m) ==
    IF i > Len(vals) THEN [dup |-> FALSE, map |-> m]
    ELSE LET hex == AddrHex(vals[i].address)
         IN  IF hex \in DOMAIN m THEN [dup |-> TRUE, map |-> m]
             ELSE BuildSetByAddrHex(vals, i + 1, (hex :> vals[i]) @@ m)

\* the check without Number.isInteger
PartSetTotalNegative(total) == total.num < 0

\* !Number.isInteger(total) || total < 0
PartSetTotalInvalid(total) == ~NumberIsInteger(total) \/ total.num < 0

\* The message of the first throw of lines 67-102, "none" when none throws.
PreconditionError(s, v) ==
    IF s.header = None \/ s.commit = None
    THEN "SignedHeader missing header/commit"
    ELSE LET header == s.header[1]
             commit == s.commit[1]
             totalPower == Coalesce(v.totalVotingPower, 0)
         IN
         IF header.height # commit.height THEN "Header/commit height mismatch"
         ELSE IF Len(v.validators) = 0 THEN "ValidatorSet has no validators"
         ELSE IF totalPower <= 0 THEN "ValidatorSet total power must be positive"
         ELSE IF BuildSetByAddrHex(v.validators, 1, <<>>).dup
              THEN "Duplicate validator address in set"
         ELSE IF commit.blockId = None THEN "Commit missing BlockID"
         ELSE LET bid == commit.blockId[1] IN
              IF Len(bid.hash) = 0 THEN "Commit BlockID hash is missing"
              ELSE IF bid.partSetHeader = None THEN "Commit PartSetHeader is missing"
              ELSE IF Len(bid.partSetHeader[1].hash) = 0
                   THEN "Commit PartSetHeader hash is missing"
              ELSE IF PartSetTotalInvalid(bid.partSetHeader[1].total)
                   THEN "Commit PartSetHeader total is invalid"
              ELSE "none"

----------------------------------------------------------------------------
(* State *)

\* importValidators and importCommit have not been called
ImporterIdle ==
    /\ resp = None
    /\ ipc = "idle"
    /\ vi = 1
    /\ seen = {}
    /\ keyIndex = <<>>
    /\ protoValidators = <<>>
    /\ countedPower = <<>>
    /\ keyHandle = None
    /\ imported = None
    /\ importError = ""
    /\ cresp = None
    /\ cpc = "idle"
    /\ signedHeader = None
    /\ commitError = ""

Locals0 ==
    /\ setByAddrHex = <<>>
    /\ idx = 1
    /\ signedPower = 0
    /\ unknown = <<>>
    /\ invalid = <<>>
    /\ counted = 0
    /\ outcome = None

\* Arguments that pass the preconditions: an imported validator set, a
\* CryptoIndex for it, the signed block or a tampered one, any sequence of
\* signature entries.
InitVerification ==
    \E sigs \in SeqsUpTo(SigEntries, 0, MaxSigs),
       pw \in SeqsUpTo(VotingPowers, 1, MaxVals) :
      \E st \in KeyStatesFor(pw), b \in CommitBlocksFor(pw) :
        /\ sh = [header |-> Some(GoodHeader),
                 commit |-> Some(Commit(SignedHeight,
                                 Some(BlockID(b[1], SignedPartsTotal, b[2])),
                                 sigs))]
        /\ vset = ImportedValidatorSet(pw)
        /\ cryptoIndex = CryptoIndexOf(Len(pw), st)

\* Hand-built arguments with a commit of one signature: every SignedHeader
\* option with an imported or an empty validator set, and every validator set
\* option with a SignedHeader that is complete or lacks its block id.
InitPrecondition ==
    /\ \/ \E s \in SignedHeaderOptions :
            /\ sh = s
            /\ vset \in {ImportedValidatorSet(UnitPowers(MaxVals)),
                         [validators |-> <<>>, totalVotingPower |-> None]}
       \/ \E v \in ValidatorSetOptions :
            /\ sh \in {GoodSignedHeader(Some(BlockID(SignedBlockHash,
                                          SignedPartsTotal, SignedPartsHash))),
                       GoodSignedHeader(None)}
            /\ vset = v
    /\ cryptoIndex = CryptoIndexOf(MaxVals, [i \in 1..MaxVals |-> "ok"])

Init ==
    /\ InitVerification \/ InitPrecondition
    /\ pc = "start"
    /\ Locals0
    /\ baseline = None
    /\ flipped = 0
    /\ suspended = None
    /\ reordered = FALSE
    /\ ImporterIdle

args == <<sh, vset, cryptoIndex>>

caller == <<baseline, flipped, reordered>>

\* one of the throws of lines 67-102: the promise rejects
ThrowPrecondition ==
    /\ pc = "start"
    /\ PreconditionError(sh, vset) # "none"
    /\ pc' = "thrown"
    /\ UNCHANGED <<importer, suspended, args, caller, setByAddrHex, idx, signedPower, unknown,
                   invalid, counted, outcome>>

\* lines 67-114 without a throw: the locals are initialised
EnterLoop ==
    /\ pc = "start"
    /\ PreconditionError(sh, vset) = "none"
    /\ setByAddrHex' = BuildSetByAddrHex(vset.validators, 1, <<>>).map
    /\ idx' = 1
    /\ signedPower' = 0
    /\ unknown' = <<>>
    /\ invalid' = <<>>
    /\ counted' = 0
    /\ pc' = "loop"
    /\ UNCHANGED <<importer, suspended, args, caller, outcome>>

----------------------------------------------------------------------------
(* verifyCommit: the per-signature loop (lightclient.ts:116-173) *)

header == sh.header[1]

commit == sh.commit[1]

InLoop == pc = "loop" /\ idx <= Len(commit.signatures)

\* const s = commit.signatures[idx]
CurSig == commit.signatures[idx]

CurAddrHex == AddrHex(CurSig.validatorAddress)

\* Array.prototype.unshift
Unshift(list, x) == <<x>> \o list

\* Array.prototype.push
Push(list, x) == Append(list, x)

\* line 120 testing for the Absent flag alone: every other entry is a vote
SkipOnlyAbsent ==
    /\ InLoop
    /\ \/ /\ CurSig.blockIdFlag = 1
          /\ UNCHANGED counted
       \/ /\ CurSig.blockIdFlag \notin {1, BlockIdFlagCommit}
          /\ counted' = counted + 1
    /\ idx' = idx + 1
    /\ UNCHANGED <<importer, suspended, args, caller, pc, setByAddrHex, signedPower,
                   unknown, invalid, outcome>>

\* line 120: not a COMMIT vote
SkipNonCommit ==
    /\ InLoop
    /\ CurSig.blockIdFlag # BlockIdFlagCommit
    /\ idx' = idx + 1
    /\ UNCHANGED <<importer, suspended, args, caller, pc, setByAddrHex, signedPower, unknown,
                   invalid, counted, outcome>>

\* the unknown-address branch placed after counted++
UnknownValidatorCounted ==
    /\ InLoop
    /\ CurSig.blockIdFlag = BlockIdFlagCommit
    /\ CurAddrHex \notin DOMAIN setByAddrHex
    /\ unknown' = Append(unknown, CurAddrHex)
    /\ counted' = counted + 1
    /\ idx' = idx + 1
    /\ UNCHANGED <<importer, suspended, args, caller, pc, setByAddrHex, signedPower,
                   invalid, outcome>>

\* lines 122-127: the address is not in the set
UnknownValidator ==
    /\ InLoop
    /\ CurSig.blockIdFlag = BlockIdFlagCommit
    /\ CurAddrHex \notin DOMAIN setByAddrHex
    /\ unknown' = Push(unknown, CurAddrHex)
    /\ idx' = idx + 1
    /\ UNCHANGED <<importer, suspended, args, caller, pc, setByAddrHex, signedPower, invalid,
                   counted, outcome>>

KnownCommitVote ==
    /\ InLoop
    /\ CurSig.blockIdFlag = BlockIdFlagCommit
    /\ CurAddrHex \in DOMAIN setByAddrHex

\* the empty-signature branch with counted++ moved above it
EmptySignatureCounted ==
    /\ KnownCommitVote
    /\ Len(CurSig.signature) = 0
    /\ counted' = counted + 1
    /\ invalid' = Append(invalid, CurAddrHex)
    /\ idx' = idx + 1
    /\ UNCHANGED <<importer, suspended, args, caller, pc, setByAddrHex, signedPower, unknown,
                   outcome>>

\* lines 129-132: no signature bytes
EmptySignature ==
    /\ KnownCommitVote
    /\ Len(CurSig.signature) = 0
    /\ invalid' = Push(invalid, CurAddrHex)
    /\ idx' = idx + 1
    /\ UNCHANGED <<importer, suspended, args, caller, pc, setByAddrHex, signedPower, unknown,
                   counted, outcome>>

\* the key lookup without the check of lines 149-152: verify is called with
\* undefined and its TypeError leaves verifyCommit
MissingKeyThrows ==
    /\ KnownCommitVote
    /\ Len(CurSig.signature) # 0
    /\ CurAddrHex \notin DOMAIN cryptoIndex
    /\ counted' = counted + 1
    /\ pc' = "thrown"
    /\ UNCHANGED <<importer, suspended, args, caller, setByAddrHex, idx, signedPower,
                   unknown, invalid, outcome>>

\* lines 135-152: counted, but the CryptoIndex has no key for the address
MissingKey ==
    /\ KnownCommitVote
    /\ Len(CurSig.signature) # 0
    /\ CurAddrHex \notin DOMAIN cryptoIndex
    /\ counted' = counted + 1
    /\ invalid' = Push(invalid, CurAddrHex)
    /\ idx' = idx + 1
    /\ UNCHANGED <<importer, suspended, args, caller, pc, setByAddrHex, signedPower, unknown,
                   outcome>>

\* lines 135-162: counted, and crypto.subtle.verify is called and awaited
CallVerify ==
    /\ KnownCommitVote
    /\ Len(CurSig.signature) # 0
    /\ CurAddrHex \in DOMAIN cryptoIndex
    /\ counted' = counted + 1
    /\ pc' = "await"
    /\ UNCHANGED <<importer, suspended, args, caller, setByAddrHex, idx, signedPower, unknown,
                   invalid, outcome>>

\* lines 138-146
CurSignBytes ==
    LET bid == commit.blockId[1] IN
    makePrecommitSignBytesProto(header.chainId, header.height, commit.round,
                                bid.hash, bid.partSetHeader[1].total,
                                bid.partSetHeader[1].hash, CurSig.timestamp)

\* how the awaited call of lines 157-162 settles
CurVerify ==
    Ed25519Verify(cryptoIndex[CurAddrHex], CurSig.signature, CurSignBytes)

\* line 172 reached through the failure branch as well: the address is listed
\* and the power added
VerifyTrueListed ==
    /\ pc = "await"
    /\ CurVerify = "true"
    /\ invalid' = Append(invalid, CurAddrHex)
    /\ signedPower' = signedPower + PowerOf(setByAddrHex[CurAddrHex])
    /\ idx' = idx + 1
    /\ pc' = "loop"
    /\ UNCHANGED <<importer, suspended, args, caller, setByAddrHex, unknown, counted,
                   outcome>>

\* line 172 with the validator taken at the position of the signature
VerifyTruePositional ==
    /\ pc = "await"
    /\ CurVerify = "true"
    /\ signedPower' = signedPower + (IF idx <= Len(vset.validators)
                                     THEN PowerOf(vset.validators[idx]) ELSE 0)
    /\ idx' = idx + 1
    /\ pc' = "loop"
    /\ UNCHANGED <<importer, suspended, args, caller, setByAddrHex, unknown, invalid,
                   counted, outcome>>

\* line 172: verification succeeded
VerifyTrue ==
    /\ pc = "await"
    /\ CurVerify = "true"
    /\ signedPower' = signedPower + PowerOf(setByAddrHex[CurAddrHex])
    /\ idx' = idx + 1
    /\ pc' = "loop"
    /\ UNCHANGED <<importer, suspended, args, caller, setByAddrHex, unknown, invalid, counted,
                   outcome>>

\* the failure branch without its continue: line 172 runs as well
VerifyFalseFallsThrough ==
    /\ pc = "await"
    /\ CurVerify = "false"
    /\ invalid' = Append(invalid, CurAddrHex)
    /\ signedPower' = signedPower + PowerOf(setByAddrHex[CurAddrHex])
    /\ idx' = idx + 1
    /\ pc' = "loop"
    /\ UNCHANGED <<importer, suspended, args, caller, setByAddrHex, unknown, counted, outcome>>

\* lines 167-170: verification resolved to false
VerifyFalse ==
    /\ pc = "await"
    /\ CurVerify = "false"
    /\ invalid' = Push(invalid, CurAddrHex)
    /\ idx' = idx + 1
    /\ pc' = "loop"
    /\ UNCHANGED <<importer, suspended, args, caller, setByAddrHex, signedPower, unknown, counted,
                   outcome>>

\* the rejection without the try/catch: it propagates out of verifyCommit
VerifyRejectedUncaught ==
    /\ pc = "await"
    /\ CurVerify = "rejects"
    /\ pc' = "thrown"
    /\ UNCHANGED <<importer, suspended, args, caller, setByAddrHex, idx, signedPower, unknown,
                   invalid, counted, outcome>>

\* lines 163-170: the call rejected; the catch sets ok = false
VerifyRejected ==
    /\ pc = "await"
    /\ CurVerify = "rejects"
    /\ invalid' = Push(invalid, CurAddrHex)
    /\ idx' = idx + 1
    /\ pc' = "loop"
    /\ UNCHANGED <<importer, suspended, args, caller, setByAddrHex, signedPower, unknown, counted,
                   outcome>>

----------------------------------------------------------------------------
(* verifyCommit: the result (lightclient.ts:175-188) *)

\* the comparison with >= in place of >
hasTwoThirdsInclusive(signed, total) == signed * 3 >= total * 2

hasTwoThirds(signed, total) == signed * 3 > total * 2

\* the outcome with ok = quorum && invalid.length === 0
VerifyOutcomeStrict(quorum, signed, total, unk, inv, cnt) ==
    [ok |-> quorum /\ inv = <<>>,
     quorum |-> quorum,
     signedPower |-> signed,
     totalPower |-> total,
     headerTime |-> header.time,
     appHash |-> header.appHash,
     blockIdHash |-> commit.blockId[1].hash,
     unknownValidators |-> unk,
     invalidSignatures |-> inv,
     countedSignatures |-> cnt]

VerifyOutcome(quorum, signed, total, unk, inv, cnt) ==
    [ok |-> quorum,
     quorum |-> quorum,
     signedPower |-> signed,
     totalPower |-> total,
     headerTime |-> header.time,
     appHash |-> header.appHash,
     blockIdHash |-> commit.blockId[1].hash,
     unknownValidators |-> unk,
     invalidSignatures |-> inv,
     countedSignatures |-> cnt]

Return ==
    /\ pc = "loop"
    /\ idx > Len(commit.signatures)
    /\ LET totalPower == Coalesce(vset.totalVotingPower, 0)
           quorum == hasTwoThirds(signedPower, totalPower)
       IN  outcome' = Some(VerifyOutcome(quorum, signedPower, totalPower,
                                         unknown, invalid, counted))
    /\ pc' = "done"
    /\ UNCHANGED <<importer, suspended, args, caller, setByAddrHex, idx, signedPower, unknown,
                   invalid, counted>>

----------------------------------------------------------------------------
(* The caller of the corrupted-signature test (lightclient.test.ts:77-95):  *)
(* after a run in which every signature verified, it flips bits of one      *)
(* signature and verifies the commit again.                                 *)

BitMasks == {1, 128}

AllVerified(o) ==
    /\ Len(commit.signatures) > 0
    /\ \A i \in 1..Len(commit.signatures) :
          commit.signatures[i].blockIdFlag = BlockIdFlagCommit
    /\ o.countedSignatures = Len(commit.signatures)
    /\ o.unknownValidators = <<>>
    /\ o.invalidSignatures = <<>>

FlipSignatureBit ==
    /\ pc = "done"
    /\ flipped = 0
    /\ AllVerified(outcome[1])
    /\ \E i \in 1..Len(commit.signatures), m \in BitMasks :
          /\ sh' = [sh EXCEPT !.commit[1].signatures[i].signature[1].mask = m]
          /\ flipped' = i
    /\ baseline' = outcome
    /\ pc' = "start"
    /\ setByAddrHex' = <<>>
    /\ idx' = 1
    /\ signedPower' = 0
    /\ unknown' = <<>>
    /\ invalid' = <<>>
    /\ counted' = 0
    /\ outcome' = None
    /\ UNCHANGED <<importer, suspended, reordered, vset, cryptoIndex>>

----------------------------------------------------------------------------
Next ==
    \/ ThrowPrecondition
    \/ EnterLoop
    \/ SkipNonCommit
    \/ UnknownValidator
    \/ EmptySignature
    \/ MissingKey
    \/ CallVerify
    \/ VerifyTrue
    \/ VerifyFalse
    \/ VerifyRejected
    \/ Return
    \/ FlipSignatureBit

Spec == Init /\ [][Next]_vars

TypeOK ==
    /\ pc \in {"idle", "start", "loop", "await", "done", "thrown"}
    /\ (outcome # None) = (pc = "done")

\* The event loop runs every continuation of the invocation and the awaited
\* crypto promise settles.
Step ==
    \/ ThrowPrecondition
    \/ EnterLoop
    \/ SkipNonCommit
    \/ UnknownValidator
    \/ EmptySignature
    \/ MissingKey
    \/ CallVerify
    \/ VerifyTrue
    \/ VerifyFalse
    \/ VerifyRejected
    \/ Return

\* Termination is checked on the set of MaxVals validators of power 1, with
\* every state of validator 1's key handle, the signed block, and every
\* sequence of signature entries; and on every hand-built SignedHeader.
InitTermination ==
    /\ vset = ImportedValidatorSet(UnitPowers(MaxVals))
    /\ \/ \E sigs \in SeqsUpTo(SigEntries, 0, MaxSigs), k \in KeyStates :
            /\ sh = [header |-> Some(GoodHeader),
                     commit |-> Some(Commit(SignedHeight,
                                     Some(BlockID(SignedBlockHash,
                                                  SignedPartsTotal,
                                                  SignedPartsHash)),
                                     sigs))]
            /\ cryptoIndex =
                 CryptoIndexOf(MaxVals,
                               [i \in 1..MaxVals |-> IF i = 1 THEN k ELSE "ok"])
       \/ \E s \in SignedHeaderOptions :
            /\ sh = s
            /\ cryptoIndex = CryptoIndexOf(MaxVals, [i \in 1..MaxVals |-> "ok"])
    /\ pc = "start"
    /\ Locals0
    /\ baseline = None
    /\ flipped = 0
    /\ suspended = None
    /\ reordered = FALSE
    /\ ImporterIdle

FairSpec == InitTermination /\ [][Next]_vars /\ WF_vars(Step)

----------------------------------------------------------------------------
(* The caller that verifies a commit, puts the validators of the set in     *)
(* another order and verifies the commit again.                             *)

\* the validators vals in the order p: position i holds vals[p[i]]
Reorder(vals, p) == [i \in 1..Len(vals) |-> vals[p[i]]]

ReorderValidators ==
    /\ pc = "done"
    /\ ~reordered
    /\ flipped = 0
    /\ suspended = None
    /\ \E p \in Permutations(1..Len(vset.validators)) :
          /\ Reorder(vset.validators, p) # vset.validators
          /\ vset' = [vset EXCEPT !.validators = Reorder(vset.validators, p)]
    /\ reordered' = TRUE
    /\ baseline' = outcome
    /\ pc' = "start"
    /\ setByAddrHex' = <<>>
    /\ idx' = 1
    /\ signedPower' = 0
    /\ unknown' = <<>>
    /\ invalid' = <<>>
    /\ counted' = 0
    /\ outcome' = None
    /\ UNCHANGED <<importer, suspended, sh, cryptoIndex, flipped>>

ReorderNext ==
    \/ ThrowPrecondition
    \/ EnterLoop
    \/ SkipNonCommit
    \/ UnknownValidator
    \/ EmptySignature
    \/ MissingKey
    \/ CallVerify
    \/ VerifyTrue
    \/ VerifyFalse
    \/ VerifyRejected
    \/ Return
    \/ ReorderValidators

\* powers 1, 2, 1, .. for validators 1..n
MixedPowers(n) == [i \in 1..n |-> ((i - 1) % 2) + 1]

\* Reordering is checked on the sets of 1..MaxVals validators of mixed
\* powers, with every state of validator 1's key handle, the signed block and
\* every sequence of signature entries; and on every hand-built SignedHeader.
InitReorder ==
    /\ \/ \E sigs \in SeqsUpTo(SigEntries, 0, MaxSigs), n \in 1..MaxVals, k \in KeyStates :
            /\ sh = [header |-> Some(GoodHeader),
                     commit |-> Some(Commit(SignedHeight,
                                     Some(BlockID(SignedBlockHash,
                                                  SignedPartsTotal,
                                                  SignedPartsHash)),
                                     sigs))]
            /\ vset = ImportedValidatorSet(MixedPowers(n))
            /\ cryptoIndex =
                 CryptoIndexOf(n, [i \in 1..n |-> IF i = 1 THEN k ELSE "ok"])
       \/ \E s \in SignedHeaderOptions :
            /\ sh = s
            /\ vset = ImportedValidatorSet(MixedPowers(MaxVals))
            /\ cryptoIndex = CryptoIndexOf(MaxVals, [i \in 1..MaxVals |-> "ok"])
    /\ pc = "start"
    /\ Locals0
    /\ baseline = None
    /\ flipped = 0
    /\ suspended = None
    /\ reordered = FALSE
    /\ ImporterIdle

ReorderSpec == InitReorder /\ [][ReorderNext]_vars

----------------------------------------------------------------------------
(* Two invocations on the same arguments.  verifyCommit is an async         *)
(* function: a call runs until its first await, and the engine keeps the    *)
(* frame of an invocation (its locals, lightclient.ts:70-114, and its       *)
(* promise) while another one runs.  The variables pc .. outcome are the    *)
(* frame of the invocation that is running; the other frame is suspended.   *)
(* The caller first runs one invocation alone and keeps what it settled to, *)
(* then makes two calls whose continuations the event loop runs in any      *)
(* order.                                                                   *)

\* the frame of the running invocation
Frame ==
    [pc |-> pc, setByAddrHex |-> setByAddrHex, idx |-> idx,
     signedPower |-> signedPower, unknown |-> unknown, invalid |-> invalid,
     counted |-> counted, outcome |-> outcome]

\* the frame of a call that has not run yet
NewFrame ==
    [pc |-> "start", setByAddrHex |-> <<>>, idx |-> 1, signedPower |-> 0,
     unknown |-> <<>>, invalid |-> <<>>, counted |-> 0, outcome |-> None]

\* accumulators declared outside the function: a resumed invocation finds
\* them as the other invocation left them
ResumedOnSharedAccumulators(f) ==
    [f EXCEPT !.signedPower = signedPower, !.unknown = unknown,
              !.invalid = invalid, !.counted = counted]

\* what an invocation finds when it resumes: its own locals (lines 111-114
\* declare the accumulators inside the function)
Resumed(f) == f

\* the lone invocation has settled; the caller keeps the result and calls
\* verifyCommit twice with the same arguments
CallTwice ==
    /\ pc \in {"done", "thrown"}
    /\ suspended = None
    /\ flipped = 0
    /\ baseline = None
    /\ baseline' = outcome
    /\ suspended' = Some(NewFrame)
    /\ pc' = "start"
    /\ setByAddrHex' = <<>>
    /\ idx' = 1
    /\ signedPower' = 0
    /\ unknown' = <<>>
    /\ invalid' = <<>>
    /\ counted' = 0
    /\ outcome' = None
    /\ UNCHANGED <<importer, args, flipped, reordered>>

\* the running invocation is at an await or has settled, and the event loop
\* runs the other one: its call, or the continuation of its await
SwitchInvocation ==
    /\ suspended # None
    /\ pc \in {"await", "done", "thrown"}
    /\ suspended[1].pc \in {"start", "await"}
    /\ suspended' = Some(Frame)
    /\ pc' = Resumed(suspended[1]).pc
    /\ setByAddrHex' = Resumed(suspended[1]).setByAddrHex
    /\ idx' = Resumed(suspended[1]).idx
    /\ signedPower' = Resumed(suspended[1]).signedPower
    /\ unknown' = Resumed(suspended[1]).unknown
    /\ invalid' = Resumed(suspended[1]).invalid
    /\ counted' = Resumed(suspended[1]).counted
    /\ outcome' = Resumed(suspended[1]).outcome
    /\ UNCHANGED <<importer, args, caller>>

ConcurrentNext ==
    \/ ThrowPrecondition
    \/ EnterLoop
    \/ SkipNonCommit
    \/ UnknownValidator
    \/ EmptySignature
    \/ MissingKey
    \/ CallVerify
    \/ VerifyTrue
    \/ VerifyFalse
    \/ VerifyRejected
    \/ Return
    \/ CallTwice
    \/ SwitchInvocation

ConcurrentSpec == InitTermination /\ [][ConcurrentNext]_vars

----------------------------------------------------------------------------
(* Numbers of the importers.  TLC's integers are 32 bits wide, voting       *)
(* powers go up to 2^63-1: a bigint is a sequence of 16-bit limbs, least    *)
(* significant first, and a JS number parsed from a decimal string is a     *)
(* record [nan, neg, int, frac]: not-a-number, or a sign, the integer part  *)
(* of the magnitude as limbs and whether a fractional part is left.         *)

LimbBase == 2^16

BigZero == <<0, 0, 0, 0, 0>>

\* the bigint of a TLA+ natural below 2^31
BigOfInt(n) == <<n % LimbBase, (n \div LimbBase) % LimbBase, 0, 0, 0>>

\* a + b on bigints, limb by limb with the carry
BigAdd(a, b) ==
    LET s1 == a[1] + b[1]
        s2 == a[2] + b[2] + (s1 \div LimbBase)
        s3 == a[3] + b[3] + (s2 \div LimbBase)
        s4 == a[4] + b[4] + (s3 \div LimbBase)
        s5 == a[5] + b[5] + (s4 \div LimbBase)
    IN  <<s1 % LimbBase, s2 % LimbBase, s3 % LimbBase, s4 % LimbBase,
          s5 % LimbBase>>

\* a * m + d for small m and d
BigMulAdd(a, m, d) ==
    LET s1 == a[1] * m + d
        s2 == a[2] * m + (s1 \div LimbBase)
        s3 == a[3] * m + (s2 \div LimbBase)
        s4 == a[4] * m + (s3 \div LimbBase)
        s5 == a[5] * m + (s4 \div LimbBase)
    IN  <<s1 % LimbBase, s2 % LimbBase, s3 % LimbBase, s4 % LimbBase,
          s5 % LimbBase>>

RECURSIVE BitLen(_)
BitLen(x) == IF x = 0 THEN 0 ELSE 1 + BitLen(x \div 2)

\* number of significant bits of a bigint
BigBitLength(a) ==
    LET nz == {i \in 1..Len(a) : a[i] # 0}
    IN  IF nz = {} THEN 0
        ELSE LET top == CHOOSE i \in nz : \A j \in nz : j <= i
             IN  16 * (top - 1) + BitLen(a[top])

\* significant bits of an IEEE-754 double
MantissaBits == 53

\* The double nearest to the integer a (ties to even), as an integer.  For
\* a < 2^64 the bits rounded away all lie in the lowest limb.
RoundToDouble(a) ==
    LET drop == BigBitLength(a) - MantissaBits
    IN  IF drop <= 0 THEN a
        ELSE LET p    == 2^drop
                 rem  == a[1] % p
                 base == [a EXCEPT ![1] = a[1] - rem]
                 up   == \/ 2 * rem > p
                         \/ 2 * rem = p /\ (a[1] \div p) % 2 = 1
             IN  IF up THEN BigAdd(base, BigOfInt(p)) ELSE base

DecimalDigits == {"0", "1", "2", "3", "4", "5", "6", "7", "8", "9"}

DigitValue(c) == CHOOSE d \in 0..9 : HexDigits[d + 1] = c

RECURSIVE ParseDigits(_, _)
ParseDigits(s, acc) ==
    IF s = <<>> THEN acc
    ELSE ParseDigits(Tail(s), BigMulAdd(acc, 10, DigitValue(s[1])))

NaN == [nan |-> TRUE, neg |-> FALSE, int |-> BigZero, frac |-> FALSE]

\* Number(s) for an optional string s: undefined and text that is not a
\* decimal literal give NaN, the empty string gives 0, a decimal literal (sign,
\* digits, fraction) gives the nearest double.
Number(s) ==
    IF s = None THEN NaN
    ELSE LET str    == s[1]
             signed == str # <<>> /\ str[1] \in {"-", "+"}
             body   == IF signed THEN Tail(str) ELSE str
             dots   == {i \in 1..Len(body) : body[i] = "."}
             dot    == IF dots = {} THEN Len(body) + 1 ELSE CHOOSE i \in dots : TRUE
             ip     == SubSeq(body, 1, dot - 1)
             fp     == SubSeq(body, dot + 1, Len(body))
             digits == \A i \in 1..Len(body) : i = dot \/ body[i] \in DecimalDigits
             whole  == RoundToDouble(ParseDigits(ip, BigZero))
         IN  IF str = <<>> THEN [NaN EXCEPT !.nan = FALSE]
             ELSE IF Cardinality(dots) > 1 \/ ~digits \/ (ip = <<>> /\ fp = <<>>)
                  THEN NaN
             ELSE [nan  |-> FALSE,
                   neg  |-> str[1] = "-",
                   int  |-> whole,
                   frac |-> /\ BigBitLength(whole) < MantissaBits
                            /\ \E i \in 1..Len(fp) : fp[i] # "0"]

\* a JS number used as a condition
Truthy(x) == ~x.nan /\ (x.int # BigZero \/ x.frac)

\* a || b
OrElse(a, b) == IF Truthy(a) THEN a ELSE b

\* Number.isFinite(x)
NumberIsFinite(x) == ~x.nan

\* Number.isInteger(x) on the numbers parsed from strings
IsIntegerNumber(x) == ~x.nan /\ ~x.frac

\* x < 1
LessThanOne(x) == x.neg \/ x.int = BigZero

\* BigInt(x) for an integer x >= 1
BigInt(x) == x.int

----------------------------------------------------------------------------
(* importValidators (src/src/validators.ts)                                 *)
(*                                                                          *)
(* The model keeps the two-byte addresses, keys and hashes of the verifier  *)
(* model: the lengths the importers check (20-byte addresses, 32-byte keys  *)
(* and hashes) are the lengths of the model's well-formed values.  A base64 *)
(* string is modelled by the bytes it encodes.                              *)

AddressLen == Len(Address(1))

PubKeyLen == Len(PubKeyRaw(1))

\* v.address.length !== 40: two hex digits per address byte
HexAddressLen == 2 * AddressLen

Ed25519KeyType == "tendermint/PubKeyEd25519"

Uint8ArrayToBase64(bytes) == [base64 |-> bytes]

base64ToUint8Array(str) == str.base64

\* crypto.subtle.digest("SHA-256", bytes): a function of the bytes, longer
\* than an address, whose leading bytes are the address of the key holder
Sha256(bytes) ==
    IF bytes = <<>> THEN <<227, 176, 196>> ELSE <<bytes[1], 171, Len(bytes)>>

\* sha.slice(0, 20)
DerivedAddress(rawKey) == SubSeq(Sha256(rawKey), 1, AddressLen)

\* a key handle for any bytes
SubtleImportKeyAnyLength(rawKey) == Some(CryptoKey(rawKey, {"verify"}))

\* crypto.subtle.importKey("raw", rawKey, {name: "Ed25519"}, false, ["verify"]):
\* <<handle>>, or <<>> when the promise rejects (the bytes are no Ed25519 key)
SubtleImportKey(rawKey) ==
    IF Len(rawKey) = PubKeyLen THEN Some(CryptoKey(rawKey, {"verify"})) ELSE None

\* the validators of the response
Entries == resp.validators[1]

\* const v of resp.validators
CurEntry == Entries[vi]

\* lines 19-31: the message of the throw, or "none"
EntryError(v) ==
    IF v.address = None \/ v.address = Some(<<>>) \/ Len(v.address[1]) # HexAddressLen
    THEN "Validator address must be 40 HEX digits"
    ELSE IF \/ v.pub_key = None
            \/ v.pub_key[1].type \in {None, Some("")}
            \/ v.pub_key[1].value \in {None, Some(Uint8ArrayToBase64(<<>>))}
         THEN "Validator key object is invalid"
    ELSE IF v.pub_key[1].type[1] # Ed25519KeyType
         THEN "Key type is currently unsupported"
    ELSE "none"

\* const rawKey = base64ToUint8Array(v.pub_key.value)
RawKey == base64ToUint8Array(CurEntry.pub_key[1].value[1])

\* const addrHex = Uint8ArrayToHex(sha.slice(0, 20)).toUpperCase()
addrHex == AddrHex(DerivedAddress(RawKey))

\* addresses of the same length
AddressSameLength(derivedHex, address) == Len(derivedHex) = Len(address)

\* the negation of line 47: addrHex !== v.address.toUpperCase()
AddressMatches(derivedHex, address) == derivedHex = ToUpperCase(address)

\* a set that never has an element
SeenHasNothing(s, a) == FALSE

\* seen.has(addrHex)
SeenHas(s, a) == a \in s

\* const powerNum = Number(v.voting_power) || Number(v.power)
powerNum == OrElse(Number(CurEntry.voting_power), Number(CurEntry.power))

\* the negation of lines 57-61
PowerValid(x) == NumberIsFinite(x) /\ IsIntegerNumber(x) /\ ~LessThanOne(x)

\* countedPower = BigInt(powerNum)
AssignPower(acc, p) == p

\* countedPower += BigInt(powerNum)
AccumulatePower(acc, p) == BigAdd(acc, p)

ImportLocals0 ==
    /\ vi = 1
    /\ seen = {}
    /\ keyIndex = <<>>
    /\ protoValidators = <<>>
    /\ countedPower = BigZero
    /\ keyHandle = None
    /\ imported = None
    /\ importError = ""

Throw(msg) ==
    /\ ipc' = "thrown"
    /\ importError' = msg

\* !resp.validators || resp.validators.length < 1
ValidatorsMissing == IF resp.validators = None THEN TRUE ELSE Len(Entries) < 1

\* lines 13-15
ThrowMissingValidators ==
    /\ ipc = "start"
    /\ ValidatorsMissing
    /\ Throw("Missing validators")
    /\ UNCHANGED <<verifier, commitImporter, resp, vi, seen, keyIndex,
                   protoValidators, countedPower, keyHandle, imported>>

\* lines 9-16 without a throw
StartImport ==
    /\ ipc = "start"
    /\ ~ValidatorsMissing
    /\ seen' = {}
    /\ keyIndex' = <<>>
    /\ protoValidators' = <<>>
    /\ countedPower' = BigZero
    /\ vi' = 1
    /\ ipc' = "loop"
    /\ UNCHANGED <<verifier, commitImporter, resp, keyHandle, imported,
                   importError>>

InEntry == ipc = "loop" /\ vi <= Len(Entries)

\* lines 19-31: one of the three throws
ThrowEntryShape ==
    /\ InEntry
    /\ EntryError(CurEntry) # "none"
    /\ Throw(EntryError(CurEntry))
    /\ UNCHANGED <<verifier, commitImporter, resp, vi, seen, keyIndex,
                   protoValidators, countedPower, keyHandle, imported>>

\* lines 33-40: the call of crypto.subtle.importKey, awaited
CallImportKey ==
    /\ InEntry
    /\ EntryError(CurEntry) = "none"
    /\ ipc' = "importKey"
    /\ UNCHANGED <<verifier, commitImporter, resp, vi, seen, keyIndex,
                   protoValidators, countedPower, keyHandle, imported,
                   importError>>

\* line 34: the awaited promise rejects, nothing catches it
ImportKeyRejected ==
    /\ ipc = "importKey"
    /\ SubtleImportKey(RawKey) = None
    /\ Throw("importKey rejected")
    /\ UNCHANGED <<verifier, commitImporter, resp, vi, seen, keyIndex,
                   protoValidators, countedPower, keyHandle, imported>>

\* line 34: key is the handle; lines 42-44: the call of crypto.subtle.digest
ImportKeyResolved ==
    /\ ipc = "importKey"
    /\ SubtleImportKey(RawKey) # None
    /\ keyHandle' = SubtleImportKey(RawKey)
    /\ ipc' = "digest"
    /\ UNCHANGED <<verifier, commitImporter, resp, vi, seen, keyIndex,
                   protoValidators, countedPower, imported, importError>>

\* lines 45-49
ThrowAddressMismatch ==
    /\ ipc = "digest"
    /\ ~AddressMatches(addrHex, CurEntry.address[1])
    /\ Throw("Address does not match its public key")
    /\ UNCHANGED <<verifier, commitImporter, resp, vi, seen, keyIndex,
                   protoValidators, countedPower, keyHandle, imported>>

\* lines 50-52
ThrowDuplicate ==
    /\ ipc = "digest"
    /\ AddressMatches(addrHex, CurEntry.address[1])
    /\ SeenHas(seen, addrHex)
    /\ Throw("Duplicate entry in validators set")
    /\ UNCHANGED <<verifier, commitImporter, resp, vi, seen, keyIndex,
                   protoValidators, countedPower, keyHandle, imported>>

\* lines 53-63: the address is recorded, then the power is refused
ThrowInvalidPower ==
    /\ ipc = "digest"
    /\ AddressMatches(addrHex, CurEntry.address[1])
    /\ ~SeenHas(seen, addrHex)
    /\ ~PowerValid(powerNum)
    /\ seen' = seen \cup {addrHex}
    /\ keyIndex' = (addrHex :> keyHandle[1]) @@ keyIndex
    /\ Throw("Invalid voting power")
    /\ UNCHANGED <<verifier, commitImporter, resp, vi, protoValidators,
                   countedPower, keyHandle, imported>>

\* lines 53-74: the entry is accepted
PushValidator ==
    /\ ipc = "digest"
    /\ AddressMatches(addrHex, CurEntry.address[1])
    /\ ~SeenHas(seen, addrHex)
    /\ PowerValid(powerNum)
    /\ seen' = seen \cup {addrHex}
    /\ keyIndex' = (addrHex :> keyHandle[1]) @@ keyIndex
    /\ countedPower' = AccumulatePower(countedPower, BigInt(powerNum))
    /\ protoValidators' =
          Append(protoValidators,
                 [address          |-> DerivedAddress(RawKey),
                  pubKeyBytes      |-> RawKey,
                  pubKeyType       |-> "ed25519",
                  votingPower      |-> BigInt(powerNum),
                  proposerPriority |-> BigZero])
    /\ vi' = vi + 1
    /\ keyHandle' = None
    /\ ipc' = "loop"
    /\ UNCHANGED <<verifier, commitImporter, resp, imported, importError>>

\* lines 77-83
ReturnImport ==
    /\ ipc = "loop"
    /\ vi > Len(Entries)
    /\ imported' = Some([proto |-> [validators       |-> protoValidators,
                                    proposer         |-> None,
                                    totalVotingPower |-> countedPower],
                         cryptoIndex |-> keyIndex])
    /\ ipc' = "done"
    /\ UNCHANGED <<verifier, commitImporter, resp, vi, seen, keyIndex,
                   protoValidators, countedPower, keyHandle, importError>>

----------------------------------------------------------------------------
(* The /validators responses explored (validators.test.ts:28-57) *)

\* String(n) for a natural n
RECURSIVE DecimalString(_)
DecimalString(n) ==
    IF n < 10 THEN <<HexDigits[n + 1]>>
    ELSE Append(DecimalString(n \div 10), HexDigits[(n % 10) + 1])

\* 2^53 + 1 and 2^63 - 1
LargePowers ==
    {<<"9","0","0","7","1","9","9","2","5","4","7","4","0","9","9","3">>,
     <<"9","2","2","3","3","7","2","0","3","6","8","5","4","7","7","5","8","0","7">>}

\* strings that are no integer >= 1
BadPowers == {<<"0">>, <<"-", "1">>, <<"1", ".", "5">>, <<"a", "b", "c">>, <<>>}

HexAddress(bytes, lowercase) ==
    IF lowercase THEN Uint8ArrayToHex(bytes) ELSE AddrHex(bytes)

\* makeValidatorEntry(pub, power, opts), with the optional field power
ValidatorEntry(pub, lowercase, keyType, vp, p) ==
    [address      |-> Some(HexAddress(DerivedAddress(pub), lowercase)),
     pub_key      |-> Some([type |-> Some(keyType),
                            value |-> Some(Uint8ArrayToBase64(pub))]),
     voting_power |-> vp,
     power        |-> p]

\* the entry of validator i with voting power n
PlainEntry(i, n) ==
    ValidatorEntry(PubKeyRaw(i), FALSE, Ed25519KeyType, Some(DecimalString(n)), None)

PlainEntries == {PlainEntry(i, n) : i \in 1..MaxVals, n \in VotingPowers}

\* another validator than i
OtherThan(i) == (i % MaxVals) + 1

\* Entries of validator i that differ from a plain one in one respect: the
\* address (lowercase, missing, one digit short, another validator's), the
\* key object (missing, without type or value, of another type, one byte
\* short), the powers.
VariantEntries(i) ==
    LET e == PlainEntry(i, 1)
    IN  {[e EXCEPT !.address = a] :
            a \in {Some(Uint8ArrayToHex(Address(i))), None,
                   Some(SubSeq(e.address[1], 1, HexAddressLen - 1)),
                   Some(AddrHex(Address(OtherThan(i))))}}
        \cup {[e EXCEPT !.pub_key = None],
              [e EXCEPT !.pub_key[1].type = None],
              [e EXCEPT !.pub_key[1].value = None],
              [e EXCEPT !.pub_key[1].type = Some("tendermint/PubKeySecp256k1")],
              ValidatorEntry(<<i>>, FALSE, Ed25519KeyType, e.voting_power, None)}
        \cup {[e EXCEPT !.voting_power = vp, !.power = p] :
                vp \in {None} \cup {Some(s) : s \in BadPowers},
                p \in {None, Some(DecimalString(2))}}
        \cup {[e EXCEPT !.voting_power = Some(s)] : s \in LargePowers}

\* makeResponse(entries, height, countOverride, totalOverride)
MakeResponse(entries, height, count, total) ==
    [block_height |-> height, validators |-> entries,
     count |-> count, total |-> total]

\* the response for entries, complete and on one page
FullResponse(entries) ==
    MakeResponse(Some(entries), Some(DecimalString(SignedHeight)),
                 Some(DecimalString(Len(entries))),
                 Some(DecimalString(Len(entries))))

\* the plain entries of validators 1..n, each of power 1
UnitEntries(n) == [i \in 1..n |-> PlainEntry(i, 1)]

CountStrings == {None, Some(<<"a">>)} \cup {Some(DecimalString(n)) : n \in 1..(MaxVals + 1)}

HeightStrings == {None, Some(<<>>), Some(DecimalString(7))}

\* Responses: sequences of plain entries, one of them possibly replaced by a
\* variant; no validators; unit entries under every count, total and height.
InitResponse ==
    \/ \E es \in SeqsUpTo(PlainEntries, 1, MaxVals) :
          \/ resp = FullResponse(es)
          \/ \E k \in 1..Len(es), i \in 1..MaxVals :
                \E v \in VariantEntries(i) :
                   resp = FullResponse([es EXCEPT ![k] = v])
    \/ \E es \in {None, Some(<<>>)} :
          resp = MakeResponse(es, Some(DecimalString(7)), Some(<<"0">>), Some(<<"0">>))
    \/ \E n \in 1..MaxVals, h \in HeightStrings, c \in CountStrings, t \in CountStrings :
          resp = MakeResponse(Some(UnitEntries(n)), h, c, t)

VerifierIdle ==
    /\ sh = None
    /\ vset = None
    /\ cryptoIndex = <<>>
    /\ pc = "idle"
    /\ Locals0
    /\ baseline = None
    /\ flipped = 0
    /\ suspended = None
    /\ reordered = FALSE

----------------------------------------------------------------------------
(* importCommit (src/src/commit.ts)                                         *)
(*                                                                          *)
(* A JSON value whose type the code tests is a record [typeof, value]; a    *)
(* timestamp string "<date-time>[.<digits>]Z" is the record of its parts,   *)
(* [date, frac]: the seconds since the epoch of its date-time (none when    *)
(* Date cannot parse the text) and the digits of its fraction.  The 64      *)
(* bytes of a signature are one record (see Ed25519Sign); a signature cut   *)
(* short carries the number of bytes cut.                                   *)

HashLen == Len(SignedBlockHash)

\* Ed25519 = 64 bytes
SignatureLen == 64

JsonNumber(x) == [typeof |-> "number", value |-> x]

\* a JSON string, given by the number its text denotes
JsonString(x) == [typeof |-> "string", value |-> x]

\* sigBytes.slice(0, n)
SliceSignature(sig, n) ==
    <<[signer |-> sig[1].signer, msg |-> sig[1].msg, mask |-> sig[1].mask,
       cut |-> SignatureLen - n]>>

\* u8.length of signature bytes
SignatureByteLength(sig) ==
    IF sig = <<>> THEN 0
    ELSE IF "cut" \in DOMAIN sig[1] THEN SignatureLen - sig[1].cut
    ELSE SignatureLen

HexValue(c) ==
    CASE c = "0" -> 0 [] c = "1" -> 1 [] c = "2" -> 2 [] c = "3" -> 3
      [] c = "4" -> 4 [] c = "5" -> 5 [] c = "6" -> 6 [] c = "7" -> 7
      [] c = "8" -> 8 [] c = "9" -> 9
      [] c \in {"a", "A"} -> 10 [] c \in {"b", "B"} -> 11
      [] c \in {"c", "C"} -> 12 [] c \in {"d", "D"} -> 13
      [] c \in {"e", "E"} -> 14 [] c \in {"f", "F"} -> 15

\* hexToUint8Array(hex) for an optional string of hex digits; undefined gives
\* no bytes
RECURSIVE hexToUint8Array(_)
hexToUint8Array(hex) ==
    IF hex = None THEN <<>>
    ELSE IF Len(hex[1]) < 2 THEN <<>>
    ELSE <<16 * HexValue(hex[1][1]) + HexValue(hex[1][2])>>
         \o hexToUint8Array(Some(SubSeq(hex[1], 3, Len(hex[1]))))

\* assertLen(name, u8, expect): the message of the throw, or "none"
assertLen(name, u8, expect) == IF Len(u8) # expect THEN name ELSE "none"

RECURSIVE ParseInt(_, _)
ParseInt(s, acc) ==
    IF s = <<>> THEN acc ELSE ParseInt(Tail(s), 10 * acc + DigitValue(s[1]))

\* BigInt(str) for a string: <<n>>, or <<>> when it throws a SyntaxError
BigIntOfString(str) ==
    LET body == IF str # <<>> /\ str[1] = "-" THEN Tail(str) ELSE str
    IN  IF str = <<>> THEN Some(0)
        ELSE IF body = <<>> \/ \E i \in 1..Len(body) : body[i] \notin DecimalDigits
             THEN None
        ELSE Some(IF str[1] = "-" THEN 0 - ParseInt(body, 0) ELSE ParseInt(body, 0))

\* a string used as a condition
Present(s) == s # None /\ s # Some(<<>>)

TimeString(epoch, frac) == [date |-> Some(epoch), frac |-> frac]

\* a string that is no date
NotATime == [date |-> None, frac |-> <<>>]

\* the milliseconds a Date keeps of a fraction: its first three digits
Millis(frac) == ParseInt(SubSeq(frac \o <<"0", "0", "0">>, 1, 3), 0)

\* new Date(s).getTime(): the milliseconds since the epoch as a bigint, <<>>
\* for NaN
DateGetTime(s) ==
    IF s.date = None THEN None
    ELSE Some(BigMulAdd(BigOfInt(s.date[1]), 1000, Millis(s.frac)))

\* Math.floor(t / 1000) on a bigint, by long division from the top limb
FloorDivThousand(t) ==
    LET c5 == t[5]
        c4 == (c5 % 1000) * LimbBase + t[4]
        c3 == (c4 % 1000) * LimbBase + t[3]
        c2 == (c3 % 1000) * LimbBase + t[2]
        c1 == (c2 % 1000) * LimbBase + t[1]
    IN  <<c1 \div 1000, c2 \div 1000, c3 \div 1000, c4 \div 1000, c5 \div 1000>>

\* the TLA+ integer of a bigint below 2^31
IntOfBig(a) == a[1] + LimbBase * a[2]

\* the fraction parsed without the zero padding
NanosOfUnpadded(frac) ==
    LET n == IF Len(frac) < 9 THEN Len(frac) ELSE 9
    IN  IF n = 0 THEN 0 ELSE ParseInt(SubSeq(frac, 1, n), 0)

\* lines 72-76
NanosOf(frac) ==
    LET n == IF Len(frac) < 9 THEN Len(frac) ELSE 9
    IN  IF n = 0 THEN 0
        ELSE ParseInt(SubSeq(frac \o [i \in 1..(9 - n) |-> "0"], 1, 9), 0)

\* parseRFC3339ToTimestamp(s): <<Timestamp>>, or <<>> when it throws
parseRFC3339ToTimestamp(s) ==
    IF DateGetTime(s) = None THEN None
    ELSE Some([seconds |-> IntOfBig(FloorDivThousand(DateGetTime(s)[1])),
               nanos   |-> NanosOf(s.frac)])

\* the checks of a block id without the check of parts.total
BlockIdErrorAnyTotal(name, bid) ==
    IF bid = None THEN name
    ELSE IF ~Present(bid[1].hash) \/ bid[1].parts = None THEN name
    ELSE IF assertLen("hash", hexToUint8Array(bid[1].hash), HashLen) # "none"
         THEN name \o ".hash"
    ELSE IF assertLen("hash", hexToUint8Array(bid[1].parts[1].hash), HashLen) # "none"
         THEN name \o ".parts.hash"
    ELSE "none"

\* lines 118-134 and 156-172: the message of the throw for a block id, or "none"
BlockIdError(name, bid) ==
    IF bid = None THEN name
    ELSE IF ~Present(bid[1].hash) \/ bid[1].parts = None THEN name
    ELSE IF assertLen("hash", hexToUint8Array(bid[1].hash), HashLen) # "none"
         THEN name \o ".hash"
    ELSE IF assertLen("hash", hexToUint8Array(bid[1].parts[1].hash), HashLen) # "none"
         THEN name \o ".parts.hash"
    ELSE IF \/ ~NumberIsInteger(bid[1].parts[1].total)
            \/ bid[1].parts[1].total.num < 0
         THEN name \o ".parts.total"
    ELSE "none"

\* the ProtoBlockID of lines 125-131 and 163-169
ProtoBlockID(bid) ==
    [hash |-> hexToUint8Array(bid[1].hash),
     partSetHeader |-> Some([total |-> bid[1].parts[1].total,
                             hash  |-> hexToUint8Array(bid[1].parts[1].hash)])]

\* the header fields of lines 137-144 that must be 32 bytes
HashFields(h) ==
    <<h.last_commit_hash, h.data_hash, h.validators_hash,
      h.next_validators_hash, h.consensus_hash, h.last_results_hash,
      h.evidence_hash>>

\* lines 179-193: the message of the throw for signature entry s, or "none"
SignatureError(s) ==
    IF s.block_id_flag.typeof # "number" THEN "block_id_flag must be a number"
    ELSE IF ~Present(s.validator_address) THEN "validator_address missing"
    ELSE IF assertLen("a", hexToUint8Array(s.validator_address), AddressLen) # "none"
         THEN "validator_address must be 20 bytes"
    ELSE IF \/ s.signature = None
            \/ s.signature = Some(Uint8ArrayToBase64(<<>>))
         THEN "signature missing"
    ELSE IF SignatureByteLength(base64ToUint8Array(s.signature[1])) # SignatureLen
         THEN "signature must be 64 bytes"
    ELSE IF s.timestamp # None /\ parseRFC3339ToTimestamp(s.timestamp[1]) = None
         THEN "Invalid RFC3339 time"
    ELSE "none"

\* lines 195-200: the ProtoCommitSig of signature entry s
ProtoCommitSig(s) ==
    [blockIdFlag      |-> s.block_id_flag.value.num,
     validatorAddress |-> hexToUint8Array(s.validator_address),
     timestamp        |-> IF s.timestamp = None THEN None
                          ELSE parseRFC3339ToTimestamp(s.timestamp[1]),
     signature        |-> base64ToUint8Array(s.signature[1])]

\* lines 111-115: the version of the header
ProtoVersion(h) ==
    IF h.version = None THEN None
    ELSE Some([block |-> IF Present(h.version[1].block)
                         THEN BigIntOfString(h.version[1].block[1]) ELSE None,
               app   |-> IF Present(h.version[1].app)
                         THEN BigIntOfString(h.version[1].app[1]) ELSE None])

\* a version member that BigInt refuses
VersionError(h) ==
    IF h.version = None THEN FALSE
    ELSE \/ Present(h.version[1].block) /\ BigIntOfString(h.version[1].block[1]) = None
         \/ Present(h.version[1].app) /\ BigIntOfString(h.version[1].app[1]) = None

\* importCommit, lines 84-201: the message of the first throw, or "none"
importCommitError(r) ==
    IF r.result = None THEN "Missing signed_header in response"
    ELSE IF r.result[1].signed_header = None THEN "Missing signed_header in response"
    ELSE LET h == r.result[1].signed_header[1].header
             c == r.result[1].signed_header[1].commit
         IN
    IF h = None THEN "Missing header"
    ELSE IF c = None THEN "Missing commit"
    ELSE IF ~Present(h[1].height) THEN "Missing header.height"
    ELSE IF ~Present(c[1].height) THEN "Missing commit.height"
    ELSE IF BigIntOfString(h[1].height[1]) = None \/ BigIntOfString(c[1].height[1]) = None
         THEN "SyntaxError: Cannot convert to a BigInt"
    ELSE IF BigIntOfString(h[1].height[1]) # BigIntOfString(c[1].height[1])
         THEN "height mismatch"
    ELSE IF c[1].round.typeof # "number" THEN "Invalid commit.round"
    ELSE IF c[1].round.value.num < 0 \/ ~NumberIsInteger(c[1].round.value)
         THEN "Invalid commit.round"
    ELSE IF VersionError(h[1]) THEN "SyntaxError: Cannot convert to a BigInt"
    ELSE IF BlockIdError("last_block_id", h[1].last_block_id) # "none"
         THEN BlockIdError("last_block_id", h[1].last_block_id)
    ELSE IF \E i \in 1..Len(HashFields(h[1])) :
               assertLen("hash", hexToUint8Array(HashFields(h[1])[i]), HashLen) # "none"
         THEN "header hash must be 32 bytes"
    ELSE IF ~Present(h[1].proposer_address) THEN "Missing proposer_address"
    ELSE IF assertLen("a", hexToUint8Array(h[1].proposer_address), AddressLen) # "none"
         THEN "proposer_address must be 20 bytes"
    ELSE IF h[1].time = None THEN "Missing header.time"
    ELSE IF parseRFC3339ToTimestamp(h[1].time[1]) = None THEN "Invalid RFC3339 time"
    ELSE IF BlockIdError("commit.block_id", c[1].block_id) # "none"
         THEN BlockIdError("commit.block_id", c[1].block_id)
    ELSE IF c[1].signatures = None THEN "Commit has no signatures"
    ELSE IF Len(c[1].signatures[1]) = 0 THEN "Commit has no signatures"
    ELSE LET sigs == c[1].signatures[1]
             bad  == {i \in 1..Len(sigs) : SignatureError(sigs[i]) # "none"}
         IN  IF bad = {} THEN "none"
             ELSE SignatureError(sigs[CHOOSE i \in bad : \A j \in bad : i <= j])

\* importCommit, lines 203-229: the ProtoSignedHeader returned
importCommitValue(r) ==
    LET h == r.result[1].signed_header[1].header[1]
        c == r.result[1].signed_header[1].commit[1]
        headerHeight == BigIntOfString(h.height[1])[1]
    IN  [header |-> Some(
            [version            |-> ProtoVersion(h),
             chainId            |-> h.chain_id,
             height             |-> headerHeight,
             time               |-> parseRFC3339ToTimestamp(h.time[1]),
             lastBlockId        |-> ProtoBlockID(h.last_block_id),
             lastCommitHash     |-> hexToUint8Array(h.last_commit_hash),
             dataHash           |-> hexToUint8Array(h.data_hash),
             validatorsHash     |-> hexToUint8Array(h.validators_hash),
             nextValidatorsHash |-> hexToUint8Array(h.next_validators_hash),
             consensusHash      |-> hexToUint8Array(h.consensus_hash),
             appHash            |-> hexToUint8Array(h.app_hash),
             lastResultsHash    |-> hexToUint8Array(h.last_results_hash),
             evidenceHash       |-> hexToUint8Array(h.evidence_hash),
             proposerAddress    |-> hexToUint8Array(h.proposer_address)]),
         commit |-> Some(
            [height     |-> headerHeight,
             round      |-> c.round.value.num,
             blockId    |-> Some(ProtoBlockID(c.block_id)),
             signatures |-> [i \in 1..Len(c.signatures[1]) |->
                                ProtoCommitSig(c.signatures[1][i])]])]

\* importCommit throws
ImportCommitThrows ==
    /\ cpc = "start"
    /\ importCommitError(cresp) # "none"
    /\ cpc' = "thrown"
    /\ commitError' = importCommitError(cresp)
    /\ UNCHANGED <<verifier, validatorsImporter, cresp, signedHeader>>

\* importCommit returns
ImportCommitReturns ==
    /\ cpc = "start"
    /\ importCommitError(cresp) = "none"
    /\ cpc' = "done"
    /\ signedHeader' = Some(importCommitValue(cresp))
    /\ UNCHANGED <<verifier, validatorsImporter, cresp, commitError>>

----------------------------------------------------------------------------
(* The /commit responses explored: the fixture of the tests for the signed  *)
(* block, and copies of it with one field changed (src/unnamed/part_005,    *)
(* part_006; lightclient.test.ts:59-75)                                     *)

\* the timestamp string of validator i's vote
VoteTimeString(i) == TimeString(VoteTime(i)[1].seconds, <<>>)

\* the signature entry of validator i in the fixture
SignatureJson(i) ==
    [block_id_flag     |-> JsonNumber(Num(BlockIdFlagCommit)),
     validator_address |-> Some(AddrHex(Address(i))),
     timestamp         |-> Some(VoteTimeString(i)),
     signature         |-> Some(Uint8ArrayToBase64(
                                  Ed25519Sign(PubKeyRaw(i), SignedBytes(i))))]

BlockIdJson(hash, total, partsHash) ==
    [hash  |-> Some(AddrHex(hash)),
     parts |-> Some([total |-> total, hash |-> Some(AddrHex(partsHash))])]

HeaderJson ==
    [version |-> Some([block |-> Some(<<"1", "1">>), app |-> Some(<<"1">>)]),
     chain_id |-> ChainId,
     height |-> Some(DecimalString(SignedHeight)),
     time |-> Some(TimeString(GoodHeader.time[1].seconds, <<>>)),
     last_block_id |-> Some(BlockIdJson(<<1, 2>>, Num(1), <<3, 4>>)),
     last_commit_hash |-> Some(AddrHex(<<5, 6>>)),
     data_hash |-> Some(AddrHex(<<7, 8>>)),
     validators_hash |-> Some(AddrHex(<<9, 10>>)),
     next_validators_hash |-> Some(AddrHex(<<9, 10>>)),
     consensus_hash |-> Some(AddrHex(<<11, 12>>)),
     app_hash |-> Some(AddrHex(GoodHeader.appHash)),
     last_results_hash |-> Some(AddrHex(<<13, 14>>)),
     evidence_hash |-> Some(AddrHex(<<15, 16>>)),
     proposer_address |-> Some(AddrHex(Address(1)))]

CommitJson ==
    [height |-> Some(DecimalString(SignedHeight)),
     round |-> JsonNumber(Num(0)),
     block_id |-> Some(BlockIdJson(SignedBlockHash, SignedPartsTotal, SignedPartsHash)),
     signatures |-> Some([i \in 1..MaxSigs |-> SignatureJson(i)])]

ResponseOf(h, c) ==
    [result |-> Some([signed_header |-> Some([header |-> h, commit |-> c])])]

commitFixture == ResponseOf(Some(HeaderJson), Some(CommitJson))

BadHeights == {None, Some(<<>>), Some(<<"a">>), Some(DecimalString(OtherHeight))}

BadBlockIds ==
    {None,
     Some([BlockIdJson(<<1, 2>>, Num(1), <<3, 4>>) EXCEPT !.hash = None]),
     Some([BlockIdJson(<<1, 2>>, Num(1), <<3, 4>>) EXCEPT !.parts = None]),
     Some(BlockIdJson(<<1>>, Num(1), <<3, 4>>)),
     Some(BlockIdJson(<<1, 2>>, Num(1), <<3>>)),
     Some(BlockIdJson(<<1, 2>>, Num(-1), <<3, 4>>)),
     Some(BlockIdJson(<<1, 2>>, [num |-> 3, den |-> 2], <<3, 4>>))}

\* copies of the fixture header with one field changed
HeaderVariants ==
    {[HeaderJson EXCEPT !.height = x] : x \in BadHeights}
    \cup {[HeaderJson EXCEPT !.version = x] :
            x \in {None,
                   Some([block |-> None, app |-> Some(<<"1">>)]),
                   Some([block |-> Some(<<"1", "1">>), app |-> None]),
                   Some([block |-> Some(<<"0">>), app |-> Some(<<>>)]),
                   Some([block |-> Some(<<"x">>), app |-> Some(<<"1">>)])}}
    \cup {[HeaderJson EXCEPT !.last_block_id = x] : x \in BadBlockIds}
    \cup {[HeaderJson EXCEPT !.data_hash = x] : x \in {None, Some(AddrHex(<<7>>))}}
    \cup {[HeaderJson EXCEPT !.evidence_hash = Some(AddrHex(<<15, 16, 17>>))]}
    \cup {[HeaderJson EXCEPT !.proposer_address = x] :
            x \in {None, Some(AddrHex(<<1>>))}}
    \cup {[HeaderJson EXCEPT !.time = x] :
            x \in {None, Some(NotATime),
                   Some(TimeString(1755524350, <<"6","1","8","8","5","7","1","2","3">>)),
                   Some(TimeString(1755524351, <<"9">>)),
                   Some(TimeString(1755524352, <<"0","0","0","0","0","0","0","0","1","9">>))}}

\* copies of the first signature entry of the fixture with one field changed
SignatureVariants ==
    LET s == SignatureJson(1)
        sig == Ed25519Sign(PubKeyRaw(1), SignedBytes(1))
    IN  {[s EXCEPT !.block_id_flag = JsonString(Num(BlockIdFlagCommit))],
         [s EXCEPT !.block_id_flag = JsonNumber(Num(1)),
                   !.signature = Some(Uint8ArrayToBase64(<<>>))],
         [s EXCEPT !.validator_address = None],
         [s EXCEPT !.validator_address = Some(AddrHex(<<1>>))],
         [s EXCEPT !.signature = None],
         [s EXCEPT !.signature = Some(Uint8ArrayToBase64(<<>>))],
         [s EXCEPT !.signature = Some(Uint8ArrayToBase64(SliceSignature(sig, 63)))],
         [s EXCEPT !.timestamp = None],
         [s EXCEPT !.timestamp = Some(NotATime)],
         [s EXCEPT !.timestamp = Some(TimeString(1755524351, <<"9">>))],
         [s EXCEPT !.block_id_flag = JsonNumber(Num(1))]}

\* copies of the fixture commit with one field changed
CommitVariants ==
    {[CommitJson EXCEPT !.height = x] : x \in BadHeights}
    \cup {[CommitJson EXCEPT !.round = x] :
            x \in {JsonString(Num(0)), JsonNumber(Num(-1)),
                   JsonNumber([num |-> 1, den |-> 2]), JsonNumber(Num(1))}}
    \cup {[CommitJson EXCEPT !.block_id = x] : x \in BadBlockIds}
    \cup {[CommitJson EXCEPT !.signatures = x] : x \in {None, Some(<<>>)}}
    \cup {[CommitJson EXCEPT !.signatures[1][k] = v] :
            k \in 1..MaxSigs, v \in SignatureVariants}

InitCommitResponse ==
    \/ cresp \in {commitFixture, [result |-> None],
                  [result |-> Some([signed_header |-> None])],
                  ResponseOf(None, Some(CommitJson)),
                  ResponseOf(Some(HeaderJson), None)}
    \/ \E h \in HeaderVariants : cresp = ResponseOf(Some(h), Some(CommitJson))
    \/ \E c \in CommitVariants : cresp = ResponseOf(Some(HeaderJson), Some(c))

----------------------------------------------------------------------------
(* The importers run on their own *)

\* Every /validators response with the fixture commit, and every /commit
\* response with the full response of the unit entries.
ImportInit ==
    /\ \/ InitResponse /\ cresp = commitFixture
       \/ InitCommitResponse /\ resp = FullResponse(UnitEntries(MaxVals))
    /\ ipc = "start"
    /\ ImportLocals0
    /\ cpc = "start"
    /\ signedHeader = None
    /\ commitError = ""
    /\ VerifierIdle

ImportNext ==
    \/ ThrowMissingValidators
    \/ StartImport
    \/ ThrowEntryShape
    \/ CallImportKey
    \/ ImportKeyRejected
    \/ ImportKeyResolved
    \/ ThrowAddressMismatch
    \/ ThrowDuplicate
    \/ ThrowInvalidPower
    \/ PushValidator
    \/ ReturnImport
    \/ ImportCommitThrows
    \/ ImportCommitReturns

ImportSpec == ImportInit /\ [][ImportNext]_vars

----------------------------------------------------------------------------
(* The light client: both imports, then verifyCommit on what they returned  *)
(* (lightclient.test.ts:22-30), or on what they returned with one change    *)
(* made by the caller, as the tests of the verifier make them               *)
(* (lightclient.test.ts:224-325).                                           *)

\* a bigint that the integers of the verifier model hold, three times over
FitsInteger(a) == a[2] < 2^13 /\ a[3] = 0 /\ a[4] = 0 /\ a[5] = 0

\* the validator set p of importValidators as the verifier model holds it:
\* the same set, its bigints as integers
VerifierSet(p) ==
    [p EXCEPT
       !.validators = [i \in 1..Len(p.validators) |->
                          [p.validators[i] EXCEPT
                             !.votingPower = Some(IntOfBig(p.validators[i].votingPower))]],
       !.totalVotingPower = Some(IntOfBig(p.totalVotingPower))]

BothImported ==
    /\ pc = "idle"
    /\ ipc = "done"
    /\ cpc = "done"
    /\ FitsInteger(imported[1].proto.totalVotingPower)

\* verifyCommit(sh, vset, cryptoIndex) on the results of the imports
CallVerifyCommit ==
    /\ BothImported
    /\ sh' = signedHeader[1]
    /\ vset' = VerifierSet(imported[1].proto)
    /\ cryptoIndex' = imported[1].cryptoIndex
    /\ pc' = "start"
    /\ UNCHANGED <<importer, caller, suspended, setByAddrHex, idx, signedPower,
                   unknown, invalid, counted, outcome>>

\* the address of the first signature of the imported commit
FirstAddrHex == AddrHex(signedHeader[1].commit[1].signatures[1].validatorAddress)

\* the changes the caller makes to the imported values before the call: the
\* block hash emptied, the first signature emptied, the key of the first
\* signature's validator deleted or made to reject
Changes == {"blockHash", "signature", "keyDeleted", "keyRejects"}

CallVerifyCommitChanged ==
    /\ BothImported
    /\ \E m \in Changes :
          /\ m \in {"keyDeleted", "keyRejects"} => FirstAddrHex \in DOMAIN imported[1].cryptoIndex
          /\ sh' = CASE m = "blockHash" ->
                          [signedHeader[1] EXCEPT !.commit[1].blockId[1].hash = <<>>]
                      [] m = "signature" ->
                          [signedHeader[1] EXCEPT !.commit[1].signatures[1].signature = <<>>]
                      [] OTHER -> signedHeader[1]
          /\ cryptoIndex' =
                CASE m = "keyDeleted" ->
                       [h \in DOMAIN imported[1].cryptoIndex \ {FirstAddrHex} |->
                           imported[1].cryptoIndex[h]]
                  [] m = "keyRejects" ->
                       [imported[1].cryptoIndex EXCEPT ![FirstAddrHex].usages = {}]
                  [] OTHER -> imported[1].cryptoIndex
    /\ vset' = VerifierSet(imported[1].proto)
    /\ pc' = "start"
    /\ UNCHANGED <<importer, caller, suspended, setByAddrHex, idx, signedPower,
                   unknown, invalid, counted, outcome>>

ClientNext ==
    \/ ThrowMissingValidators
    \/ StartImport
    \/ ThrowEntryShape
    \/ CallImportKey
    \/ ImportKeyRejected
    \/ ImportKeyResolved
    \/ ThrowAddressMismatch
    \/ ThrowDuplicate
    \/ ThrowInvalidPower
    \/ PushValidator
    \/ ReturnImport
    \/ ImportCommitThrows
    \/ ImportCommitReturns
    \/ CallVerifyCommit
    \/ CallVerifyCommitChanged
    \/ ThrowPrecondition
    \/ EnterLoop
    \/ SkipNonCommit
    \/ UnknownValidator
    \/ EmptySignature
    \/ MissingKey
    \/ CallVerify
    \/ VerifyTrue
    \/ VerifyFalse
    \/ VerifyRejected
    \/ Return

ClientSpec == ImportInit /\ [][ClientNext]_vars

----------------------------------------------------------------------------
(* Vocabulary of the properties, defined on the arguments alone *)

Done == pc = "done"

O == outcome[1]

Sigs == commit.signatures

Range(s) == {s[i] : i \in 1..Len(s)}

\* the validators of the set carrying the address of signature entry s
Holders(s) ==
    {i \in 1..Len(vset.validators) :
        vset.validators[i].address = s.validatorAddress}

IsCommitVote(s) == s.blockIdFlag = BlockIdFlagCommit

IsKnown(s) == Holders(s) # {}

\* the sign-bytes of the vote of entry s for the block the commit names
VoteBytes(s) ==
    [prefix |-> CanonicalPrefix,
     body |-> [type |-> PrecommitType, height |-> commit.height,
               round |-> commit.round,
               blockId |-> [hash |-> commit.blockId[1].hash,
                            partSetHeader |-> commit.blockId[1].partSetHeader[1]],
               timestamp |-> s.timestamp, chainId |-> header.chainId]]

\* s carries a Commit-flag signature that verifies under the key of validator v
VerifiesUnder(v, s) ==
    /\ IsCommitVote(s)
    /\ s.validatorAddress = v.address
    /\ s.signature = Ed25519Sign(v.pubKeyBytes, VoteBytes(s))

RECURSIVE SumOver(_, _)
SumOver(f, S) ==
    IF S = {} THEN 0
    ELSE LET x == CHOOSE y \in S : TRUE IN f[x] + SumOver(f, S \ {x})

\* combined power of the distinct validators with a verifying signature
DistinctSignedPower ==
    SumOver([i \in 1..Len(vset.validators) |-> PowerOf(vset.validators[i])],
            {i \in 1..Len(vset.validators) :
                \E j \in 1..Len(Sigs) : VerifiesUnder(vset.validators[i], Sigs[j])})

TotalIsSum ==
    vset.totalVotingPower = Some(SumPowers(vset.validators))

----------------------------------------------------------------------------
(* C1 *)

\* C1: verifyCommit returns ok = true only if the distinct validators of the
\* set with a verifying Commit-flag signature hold more than 2/3 of the total
\* voting power, each validator's power counted once.
C1_OkOnlyWithDistinctSuperMajority ==
    (Done /\ O.ok) =>
        DistinctSignedPower * 3 > Coalesce(vset.totalVotingPower, 0) * 2

(* C2 *)

\* C2: on a validator set whose total is the sum of its validators' powers,
\* every outcome has signedPower <= totalPower.
C2_SignedAtMostTotal ==
    (Done /\ TotalIsSum) => O.signedPower <= O.totalPower

(* C3 *)

\* C3: in every outcome, quorum is true exactly when
\* signedPower * 3 > totalPower * 2 (two-thirds exactly is no quorum).
C3_QuorumIffStrictTwoThirds ==
    Done => (O.quorum <=> O.signedPower * 3 > O.totalPower * 2)

\* an outcome with exactly two thirds of the power signed, and no quorum
C3_Witness ==
    /\ Done
    /\ O.signedPower > 0
    /\ O.signedPower * 3 = O.totalPower * 2
    /\ ~O.quorum

(* C4 *)

\* C4: in every outcome ok equals quorum, whatever the invalid and unknown
\* lists hold.
C4_OkEqualsQuorum ==
    Done => (O.ok = O.quorum)

\* a quorum reached next to an invalid signature: ok stays true
C4_Witness ==
    /\ Done
    /\ O.quorum
    /\ O.ok
    /\ O.invalidSignatures # <<>>

(* C5 *)

KnownCommitVotes ==
    {j \in 1..Len(Sigs) : IsCommitVote(Sigs[j]) /\ IsKnown(Sigs[j])}

\* C5 as claimed: countedSignatures is the number of Commit-flag signatures
\* with an address of the set, whatever their signature bytes.
C5_CountedAllKnownCommitVotes ==
    Done => O.countedSignatures = Cardinality(KnownCommitVotes)

\* C5 as amended: countedSignatures is the number of Commit-flag signatures
\* with an address of the set and non-empty signature bytes, whether or not
\* they verify.
C5_CountedNonEmptyKnownCommitVotes ==
    Done => O.countedSignatures =
              Cardinality({j \in KnownCommitVotes : Len(Sigs[j].signature) > 0})

\* an outcome of a commit with an empty and a non-empty known Commit vote
C5_Witness ==
    /\ Done
    /\ \E j \in KnownCommitVotes : Len(Sigs[j].signature) = 0
    /\ O.countedSignatures = 1
    /\ Cardinality(KnownCommitVotes) = 2

(* C6 *)

\* one of the preconditions of the verifier is violated by the arguments
PreconditionViolated ==
    \/ sh.header = None
    \/ sh.commit = None
    \/ /\ sh.header # None
       /\ sh.commit # None
       /\ \/ header.height # commit.height
          \/ vset.validators = <<>>
          \/ Coalesce(vset.totalVotingPower, 0) <= 0
          \/ \E i, j \in 1..Len(vset.validators) :
                i # j /\ vset.validators[i].address = vset.validators[j].address
          \/ commit.blockId = None
          \/ /\ commit.blockId # None
             /\ \/ commit.blockId[1].hash = <<>>
                \/ commit.blockId[1].partSetHeader = None
                \/ /\ commit.blockId[1].partSetHeader # None
                   /\ LET psh == commit.blockId[1].partSetHeader[1] IN
                      \/ psh.hash = <<>>
                      \/ psh.total.num < 0
                      \/ psh.total.num % psh.total.den # 0

\* C6: whenever a precondition is violated, verifyCommit throws: the only
\* step the invocation can take is the throw, it never enters the loop and
\* never yields a VerifyOutcome.
C6_ViolatedPreconditionThrows ==
    PreconditionViolated =>
        /\ pc \in {"start", "thrown"}
        /\ outcome = None
        /\ pc = "start" => (ENABLED ThrowPrecondition /\ ~ENABLED EnterLoop)

\* verifyCommit has thrown on arguments whose only defect is a part-set total
\* that is not an integer
C6_Witness ==
    /\ pc = "thrown"
    /\ sh.header # None
    /\ sh.commit # None
    /\ header.height = commit.height
    /\ Coalesce(vset.totalVotingPower, 0) > 0
    /\ PreconditionError(sh, vset) = "Commit PartSetHeader total is invalid"
    /\ commit.blockId[1].partSetHeader[1].total.num > 0

(* C7 *)

\* C7: whenever all preconditions hold, verifyCommit terminates with a
\* VerifyOutcome after going through every signature of the commit.
C7_TerminatesWithOutcome ==
    (pc = "start" /\ ~PreconditionViolated)
        ~> (pc = "done" /\ outcome # None /\ idx = Len(Sigs) + 1)

\* an outcome of a commit whose first signature's verification rejected and
\* whose second signature was still verified and counted
C7_Witness ==
    /\ Done
    /\ Len(Sigs) = 2
    /\ IsCommitVote(Sigs[1])
    /\ AddrHex(Sigs[1].validatorAddress) \in DOMAIN cryptoIndex
    /\ Sigs[1].signature # <<>>
    /\ "verify" \notin cryptoIndex[AddrHex(Sigs[1].validatorAddress)].usages
    /\ O.invalidSignatures = <<AddrHex(Sigs[1].validatorAddress)>>
    /\ O.signedPower > 0
    /\ O.countedSignatures = 2

(* C8 *)

BlockTampered ==
    \/ commit.blockId[1].hash # SignedBlockHash
    \/ commit.blockId[1].partSetHeader[1].hash # SignedPartsHash

\* the signatures counted by the verifier: known Commit votes with bytes
CountedVotes == {j \in KnownCommitVotes : Len(Sigs[j].signature) > 0}

\* C8: if the commit's block hash or part-set hash differs from the value the
\* validators signed, no signature verifies: signedPower = 0, quorum and ok
\* are false, every counted signature's address is in invalidSignatures, and
\* the list is as long as the count when no known Commit vote is empty.
C8_TamperedBlockInvalidatesAll ==
    (Done /\ BlockTampered) =>
        /\ O.signedPower = 0
        /\ ~O.quorum
        /\ ~O.ok
        /\ \A j \in CountedVotes :
              AddrHex(Sigs[j].validatorAddress) \in Range(O.invalidSignatures)
        /\ (CountedVotes = KnownCommitVotes =>
              Len(O.invalidSignatures) = O.countedSignatures)

\* an outcome for a tampered part-set hash where two validators' own
\* signatures were counted and both reported invalid
C8_Witness ==
    /\ Done
    /\ commit.blockId[1].partSetHeader[1].hash # SignedPartsHash
    /\ O.countedSignatures = 2
    /\ Len(O.invalidSignatures) = 2
    /\ \A j \in 1..Len(Sigs) : \E i \in Holders(Sigs[j]) :
          /\ Sigs[j].signature # <<>>
          /\ Sigs[j].signature[1].signer = vset.validators[i].pubKeyBytes
          /\ Sigs[j].signature[1].mask = 0
          /\ AddrHex(Sigs[j].validatorAddress) \in DOMAIN cryptoIndex
          /\ "verify" \in cryptoIndex[AddrHex(Sigs[j].validatorAddress)].usages

(* C9 *)

\* the validator whose signature the caller corrupted
FlippedValidator ==
    vset.validators[CHOOSE i \in Holders(Sigs[flipped]) : TRUE]

\* C9: after flipping bits of one signature of a commit whose signatures all
\* verified, exactly that signature's address is in invalidSignatures, exactly
\* that validator's power is missing from signedPower, and nothing else of
\* the classification changes.
C9_FlippedSignatureAloneInvalid ==
    (Done /\ flipped # 0) =>
        /\ O.invalidSignatures = <<AddrHex(Sigs[flipped].validatorAddress)>>
        /\ O.signedPower = baseline[1].signedPower - PowerOf(FlippedValidator)
        /\ O.unknownValidators = <<>>
        /\ O.countedSignatures = baseline[1].countedSignatures

\* the second outcome for a commit of two signatures, one of them corrupted
C9_Witness ==
    /\ Done
    /\ flipped = 1
    /\ Len(Sigs) = 2
    /\ Sigs[1].validatorAddress # Sigs[2].validatorAddress
    /\ O.signedPower > 0
    /\ O.signedPower < baseline[1].signedPower

(* C10 *)

IsUnknownVote(s) == IsCommitVote(s) /\ ~IsKnown(s)

\* a known Commit vote that adds no power
IsInvalidVote(s) ==
    /\ IsCommitVote(s)
    /\ IsKnown(s)
    /\ \/ s.signature = <<>>
       \/ AddrHex(s.validatorAddress) \notin DOMAIN cryptoIndex
       \/ /\ s.signature # <<>>
          /\ AddrHex(s.validatorAddress) \in DOMAIN cryptoIndex
          /\ Ed25519Verify(cryptoIndex[AddrHex(s.validatorAddress)],
                           s.signature, VoteBytes(s)) # "true"

AddressesOf(entries) ==
    [i \in 1..Len(entries) |-> AddrHex(entries[i].validatorAddress)]

\* C10: unknownValidators and invalidSignatures list the addresses in the
\* order of their signatures in commit.signatures.
C10_ListsInCommitOrder ==
    Done =>
        /\ O.unknownValidators = AddressesOf(SelectSeq(Sigs, IsUnknownVote))
        /\ O.invalidSignatures = AddressesOf(SelectSeq(Sigs, IsInvalidVote))

\* an outcome listing two different addresses, in commit order, in a list
C10_Witness ==
    /\ Done
    /\ \/ /\ Len(O.unknownValidators) = 2
          /\ O.unknownValidators[1] # O.unknownValidators[2]
       \/ /\ Len(O.invalidSignatures) = 2
          /\ O.invalidSignatures[1] # O.invalidSignatures[2]

----------------------------------------------------------------------------
(* Vocabulary of the properties of importValidators *)

Imported == ipc = "done"

\* the validator set of the result
V == imported[1].proto

RECURSIVE BigSum(_)
BigSum(s) == IF s = <<>> THEN BigZero ELSE BigAdd(s[1], BigSum(Tail(s)))

\* the string is a decimal literal of digits only
DigitsOnly(s) ==
    /\ s # None
    /\ s[1] # <<>>
    /\ \A i \in 1..Len(s[1]) : s[1][i] \in DecimalDigits

\* the integer a digits-only string denotes
Denoted(s) == ParseDigits(s[1], BigZero)

\* the string denotes an integer >= n
DenotesAtLeast(s, n) ==
    /\ DigitsOnly(s)
    /\ \A k \in 0..(n - 1) : Denoted(s) # BigOfInt(k)

\* the bytes are an Ed25519 public key
IsEd25519Key(raw) == Len(raw) = PubKeyLen

\* the entry carries a key, and the address derived from it
HasKey(e) ==
    IF e.pub_key = None THEN FALSE ELSE e.pub_key[1].value # None

KeyOf(e) == e.pub_key[1].value[1].base64

DerivedHex(e) == AddrHex(SubSeq(Sha256(KeyOf(e)), 1, AddressLen))

(* C11 *)

\* C11: importValidators returns only for a complete single-page listing:
\* count and total denote the same integer, at least 2, and the number of
\* entries is that integer.
C11_OnlyCompleteSinglePage ==
    Imported =>
        /\ DenotesAtLeast(resp.count, 2)
        /\ DenotesAtLeast(resp.total, 2)
        /\ Denoted(resp.count) = Denoted(resp.total)
        /\ Denoted(resp.total) = BigOfInt(Len(Entries))

(* C12 *)

\* C12: every validator of a returned set has the address SHA-256(key)[0..20],
\* and no import returns when the claimed address of an entry, in uppercase,
\* differs from the uppercase hex of the derived address: at that entry the
\* import can only throw.
C12_AddressDerivedFromKey ==
    /\ Imported =>
          /\ \A i \in 1..Len(V.validators) :
                V.validators[i].address =
                    SubSeq(Sha256(V.validators[i].pubKeyBytes), 1, AddressLen)
          /\ \A i \in 1..Len(Entries) :
                ToUpperCase(Entries[i].address[1]) = DerivedHex(Entries[i])
    /\ (ipc = "digest" /\ ToUpperCase(CurEntry.address[1]) # DerivedHex(CurEntry)) =>
          /\ ENABLED ThrowAddressMismatch
          /\ ~ENABLED PushValidator

\* a set returned for entries one of which claims its address in lowercase
C12_Witness ==
    /\ Imported
    /\ Len(V.validators) = 2
    /\ \E i \in 1..Len(Entries) :
          /\ Entries[i].address[1] # ToUpperCase(Entries[i].address[1])
          /\ AddrHex(V.validators[i].address) = ToUpperCase(Entries[i].address[1])

(* C13 *)

\* C13: the totalVotingPower of a returned set is the sum of the votingPower
\* of its validators, and is not zero.
C13_TotalIsSumAndPositive ==
    Imported =>
        /\ V.totalVotingPower =
              BigSum([i \in 1..Len(V.validators) |-> V.validators[i].votingPower])
        /\ V.totalVotingPower # BigZero

\* a returned set of two validators of different powers
C13_Witness ==
    /\ Imported
    /\ Len(V.validators) = 2
    /\ V.validators[1].votingPower # V.validators[2].votingPower
    /\ V.totalVotingPower # V.validators[2].votingPower

(* C14 *)

\* C14: the addresses of a returned set are pairwise distinct, and no import
\* returns when two entries derive the same address.
C14_AddressesDistinct ==
    Imported =>
        /\ \A i, j \in 1..Len(V.validators) :
              i # j => V.validators[i].address # V.validators[j].address
        /\ \A i, j \in 1..Len(Entries) :
              (i # j /\ HasKey(Entries[i]) /\ HasKey(Entries[j]))
                  => DerivedHex(Entries[i]) # DerivedHex(Entries[j])

\* the import threw at the second of two entries with the same key
C14_Witness ==
    /\ ipc = "thrown"
    /\ importError = "Duplicate entry in validators set"
    /\ vi = 2
    /\ KeyOf(Entries[1]) = KeyOf(Entries[2])

(* C15 *)

\* the key handle of entry e cannot be constructed
KeyFails(e) == HasKey(e) /\ ~IsEd25519Key(KeyOf(e))

\* C15 as stated: a failing construction of a key handle never makes the
\* import throw, and in a returned result exactly the validators whose handle
\* could be constructed have an entry in the CryptoIndex.
C15_KeyFailureTolerated ==
    /\ importError # "importKey rejected"
    /\ Imported =>
          \A i \in 1..Len(V.validators) :
              (AddrHex(V.validators[i].address) \in DOMAIN imported[1].cryptoIndex)
                  = IsEd25519Key(V.validators[i].pubKeyBytes)

\* C15, amended: when the key handle of an entry cannot be constructed the
\* import can only throw, so no import returns for a response with such an
\* entry; every address of a returned set has an entry in the CryptoIndex, the
\* handle of that validator's key.
C15_KeyFailureThrows ==
    /\ (ipc = "importKey" /\ KeyFails(CurEntry)) =>
          /\ ENABLED ImportKeyRejected
          /\ ~ENABLED ImportKeyResolved
    /\ Imported =>
          /\ \A i \in 1..Len(Entries) : ~KeyFails(Entries[i])
          /\ \A i \in 1..Len(V.validators) :
                /\ AddrHex(V.validators[i].address) \in DOMAIN imported[1].cryptoIndex
                /\ imported[1].cryptoIndex[AddrHex(V.validators[i].address)].raw
                      = V.validators[i].pubKeyBytes

\* the import threw at the second entry, whose key is one byte short
C15_Witness ==
    /\ ipc = "thrown"
    /\ importError = "importKey rejected"
    /\ vi = 2
    /\ KeyFails(Entries[2])

(* C16 *)

\* C16: no import returns when the voting_power of an entry does not denote
\* an integer >= 1, whatever the entry carries besides; every validator of a
\* returned set has a votingPower that is not zero.
C16_InvalidPowerThrows ==
    Imported =>
        /\ \A i \in 1..Len(Entries) : DenotesAtLeast(Entries[i].voting_power, 1)
        /\ \A i \in 1..Len(V.validators) : V.validators[i].votingPower # BigZero

(* C17 *)

\* C17: no import returns when block_height is missing or empty, and the
\* result carries height, the integer block_height denotes.
C17_HeightRequiredAndReturned ==
    Imported =>
        /\ DigitsOnly(resp.block_height)
        /\ "height" \in DOMAIN imported[1]
        /\ imported[1].height = Denoted(resp.block_height)

(* C18 *)

\* C18: a voting_power string of digits is imported as the integer it
\* denotes, and totalVotingPower is the sum of the integers denoted.
C18_PowersExact ==
    (Imported /\ \A i \in 1..Len(Entries) : DigitsOnly(Entries[i].voting_power)) =>
        /\ \A i \in 1..Len(V.validators) :
              V.validators[i].votingPower = Denoted(Entries[i].voting_power)
        /\ V.totalVotingPower =
              BigSum([i \in 1..Len(Entries) |-> Denoted(Entries[i].voting_power)])

----------------------------------------------------------------------------
(* Vocabulary of the properties of importCommit *)

CommitImported == cpc = "done"

\* the header and the commit of the response, and of the result
JsonHeader == cresp.result[1].signed_header[1].header[1]

JsonSignatures == cresp.result[1].signed_header[1].commit[1].signatures[1]

ImportedHeader == signedHeader[1].header[1]

ImportedSignatures == signedHeader[1].commit[1].signatures

\* the signature of JSON entry s is absent or the empty string
SignatureAbsent(s) == s.signature \in {None, Some(Uint8ArrayToBase64(<<>>))}

(* C19 *)

\* C19: importCommit does not throw for an absent or empty signature; it
\* throws for a signature only when one that is present and non-empty does not
\* decode to 64 bytes.  In a result an absent or empty signature is the empty
\* byte array, and every signature has length 0 or 64.
C19_AbsentSignatureImported ==
    /\ cpc = "thrown" => commitError # "signature missing"
    /\ (cpc = "thrown" /\ commitError = "signature must be 64 bytes") =>
          \E i \in 1..Len(JsonSignatures) :
              /\ ~SignatureAbsent(JsonSignatures[i])
              /\ SignatureByteLength(JsonSignatures[i].signature[1].base64) # SignatureLen
    /\ CommitImported =>
          \A i \in 1..Len(ImportedSignatures) :
              /\ SignatureByteLength(ImportedSignatures[i].signature) \in {0, SignatureLen}
              /\ SignatureAbsent(JsonSignatures[i])
                    => ImportedSignatures[i].signature = <<>>

(* C20 *)

\* the integer of member m of the JSON version, 0 when the version or the
\* member is absent
VersionMember(m) ==
    IF JsonHeader.version = None THEN 0
    ELSE IF ~Present(JsonHeader.version[1][m]) THEN 0
    ELSE BigIntOfString(JsonHeader.version[1][m][1])[1]

\* C20: the header of a result has version.block and version.app defined: the
\* integers of the JSON version, 0 for what the JSON leaves out.
C20_VersionDefaultsToZero ==
    CommitImported =>
        /\ ImportedHeader.version # None
        /\ ImportedHeader.version[1].block = Some(VersionMember("block"))
        /\ ImportedHeader.version[1].app = Some(VersionMember("app"))

(* C21 *)

\* every timestamp string of the response that importCommit parses: the
\* header's, and those of the signature entries that carry one
JsonTimes ==
    {JsonHeader.time[1]}
    \cup {JsonSignatures[i].timestamp[1] :
            i \in {j \in 1..Len(JsonSignatures) : JsonSignatures[j].timestamp # None}}

\* digit i of the fraction right-padded with zeros
PaddedDigit(frac, i) == IF i <= Len(frac) THEN DigitValue(frac[i]) ELSE 0

\* the first nine digits of the zero-padded fraction, read as a number
NineDigits(frac) ==
    PaddedDigit(frac, 1) * 100000000 + PaddedDigit(frac, 2) * 10000000
    + PaddedDigit(frac, 3) * 1000000 + PaddedDigit(frac, 4) * 100000
    + PaddedDigit(frac, 5) * 10000 + PaddedDigit(frac, 6) * 1000
    + PaddedDigit(frac, 7) * 100 + PaddedDigit(frac, 8) * 10
    + PaddedDigit(frac, 9)

\* the Time of timestamp string t
TimeOf(t) == [seconds |-> t.date[1], nanos |-> NineDigits(t.frac)]

\* the response is complete up to its timestamps: no earlier check throws
TimesReached ==
    /\ cresp.result # None
    /\ cresp.result[1].signed_header # None
    /\ cresp.result[1].signed_header[1].header # None
    /\ cresp.result[1].signed_header[1].commit # None
    /\ JsonHeader.time # None
    /\ cresp.result[1].signed_header[1].commit[1].signatures # None

Invocations == {Frame, suspended[1]}

\* the frame is as lines 111-114 leave it: nothing accumulated yet
Untouched(f) ==
    /\ f.signedPower = 0
    /\ f.unknown = <<>>
    /\ f.invalid = <<>>
    /\ f.counted = 0

\* C22: of two invocations on the same arguments whose continuations run in
\* any order, each settles exactly as the invocation that ran alone: with the
\* same outcome, or with a throw when that one threw.  A promise holds an
\* outcome only once its invocation has returned, the arguments are never
\* modified, and an invocation that has not run yet finds no accumulated value.
C22_InterleavedAsAlone ==
    suspended # None =>
        \A f \in Invocations :
            /\ f.pc = "done" => (f.outcome # None /\ f.outcome = baseline)
            /\ f.pc = "thrown" => baseline = None
            /\ f.pc # "done" => f.outcome = None
            /\ f.pc = "start" => Untouched(f)

\* one invocation has returned the outcome of the lone run, with a verified
\* and a rejected signature, while the other one is suspended at the await of
\* its second signature, its accumulators half filled
C22_Witness ==
    /\ suspended # None
    /\ pc = "done"
    /\ outcome = baseline
    /\ O.countedSignatures = 2
    /\ O.signedPower > 0
    /\ O.invalidSignatures # <<>>
    /\ suspended[1].pc = "await"
    /\ suspended[1].idx = 2
    /\ suspended[1].counted = 2
    /\ suspended[1].outcome = None

(* C23 *)

\* C23: the step the loop takes for a signature whose flag is not Commit
\* leaves signedPower, counted, unknown and invalid as they are and moves to
\* the next signature, whatever the entry's address, signature bytes and key.
C23_NonCommitChangesNothing ==
    [][(InLoop /\ ~IsCommitVote(CurSig)) =>
          /\ signedPower' = signedPower
          /\ counted' = counted
          /\ unknown' = unknown
          /\ invalid' = invalid
          /\ idx' = idx + 1
          /\ pc' = "loop"]_vars

\* the outcome of a commit of two non-Commit entries, an Absent one with the
\* address of no validator and a Nil one with a validator's own signature and
\* usable key: nothing counted, nothing listed
C23_Witness ==
    /\ Done
    /\ Len(Sigs) = 2
    /\ Sigs[1].blockIdFlag = 1
    /\ ~IsKnown(Sigs[1])
    /\ Sigs[2].blockIdFlag = 3
    /\ \E i \in Holders(Sigs[2]) : VerifiesUnder(vset.validators[i], [Sigs[2] EXCEPT !.blockIdFlag = BlockIdFlagCommit])
    /\ AddrHex(Sigs[2].validatorAddress) \in DOMAIN cryptoIndex
    /\ O.countedSignatures = 0
    /\ O.signedPower = 0
    /\ O.unknownValidators = <<>>
    /\ O.invalidSignatures = <<>>

(* C24 *)

\* C24: the step the loop takes for a Commit-flag signature whose address is
\* the address of no validator of the set appends the uppercase-hex address to
\* unknown and changes nothing else: counted, signedPower and invalid stay,
\* and the loop goes on to the next signature without awaiting a verification.
C24_UnknownOnlyListed ==
    [][(InLoop /\ IsUnknownVote(CurSig)) =>
          /\ unknown' = Append(unknown, AddrHex(CurSig.validatorAddress))
          /\ counted' = counted
          /\ signedPower' = signedPower
          /\ invalid' = invalid
          /\ idx' = idx + 1
          /\ pc' = "loop"]_vars

\* the outcome of a commit whose first entry carries an address outside the
\* set with a signature of its holder, and whose second entry verified
C24_Witness ==
    /\ Done
    /\ Len(Sigs) = 2
    /\ IsUnknownVote(Sigs[1])
    /\ Sigs[1].signature # <<>>
    /\ O.unknownValidators = <<AddrHex(Sigs[1].validatorAddress)>>
    /\ O.invalidSignatures = <<>>
    /\ O.countedSignatures = 1
    /\ O.signedPower > 0

(* C25 *)

\* a Commit-flag signature with bytes of a validator of the set
IsSignedKnownVote(s) == IsCommitVote(s) /\ IsKnown(s) /\ s.signature # <<>>

HasNoKey(s) == AddrHex(s.validatorAddress) \notin DOMAIN cryptoIndex

\* C25: the step the loop takes for a Commit-flag signature with bytes from a
\* validator of the set without an entry in the CryptoIndex increments
\* counted, appends the address to invalid, adds no power and goes on to the
\* next signature: verifyCommit does not throw.
C25_MissingKeyCountedInvalid ==
    [][(InLoop /\ IsSignedKnownVote(CurSig) /\ HasNoKey(CurSig)) =>
          /\ counted' = counted + 1
          /\ invalid' = Append(invalid, AddrHex(CurSig.validatorAddress))
          /\ signedPower' = signedPower
          /\ unknown' = unknown
          /\ idx' = idx + 1
          /\ pc' = "loop"]_vars

\* the outcome of a commit of two signed votes, the first of a validator
\* without a key, the second verified
C25_Witness ==
    /\ Done
    /\ Len(Sigs) = 2
    /\ IsSignedKnownVote(Sigs[1])
    /\ HasNoKey(Sigs[1])
    /\ O.invalidSignatures = <<AddrHex(Sigs[1].validatorAddress)>>
    /\ O.countedSignatures = 2
    /\ O.signedPower = PowerOf(vset.validators[CHOOSE i \in Holders(Sigs[2]) : TRUE])
    /\ O.signedPower > 0

(* C26 *)

\* the key of the validator of s makes the Ed25519 verification call reject
VerifyThrows(s) ==
    /\ ~HasNoKey(s)
    /\ "verify" \notin cryptoIndex[AddrHex(s.validatorAddress)].usages

\* C26: a signature whose verification call rejects is counted when the call
\* is made, and when the call has rejected its address is appended to invalid,
\* no power is added and the loop goes on: verifyCommit does not throw.
C26_VerifyThrowIsInvalid ==
    [][/\ (InLoop /\ IsSignedKnownVote(CurSig) /\ VerifyThrows(CurSig)) =>
             /\ counted' = counted + 1
             /\ pc' = "await"
             /\ UNCHANGED <<signedPower, unknown, invalid, idx>>
       /\ (pc = "await" /\ VerifyThrows(CurSig)) =>
             /\ invalid' = Append(invalid, AddrHex(CurSig.validatorAddress))
             /\ signedPower' = signedPower
             /\ counted' = counted
             /\ unknown' = unknown
             /\ idx' = idx + 1
             /\ pc' = "loop"]_vars

\* the outcome of a commit whose first vote verified and whose second vote's
\* verification call rejected
C26_Witness ==
    /\ Done
    /\ Len(Sigs) = 2
    /\ IsSignedKnownVote(Sigs[2])
    /\ VerifyThrows(Sigs[2])
    /\ Sigs[1].validatorAddress # Sigs[2].validatorAddress
    /\ O.invalidSignatures = <<AddrHex(Sigs[2].validatorAddress)>>
    /\ O.countedSignatures = 2
    /\ O.signedPower > 0

(* C27 *)

\* C27: the step the loop takes for a Commit-flag signature without bytes
\* from a validator of the set appends the address to invalid, adds no power
\* and leaves counted as it is.
C27_EmptySignatureInvalidUncounted ==
    [][(InLoop /\ IsCommitVote(CurSig) /\ IsKnown(CurSig) /\ CurSig.signature = <<>>) =>
          /\ invalid' = Append(invalid, AddrHex(CurSig.validatorAddress))
          /\ signedPower' = signedPower
          /\ counted' = counted
          /\ unknown' = unknown
          /\ idx' = idx + 1
          /\ pc' = "loop"]_vars

\* the outcome of a commit whose only entry is a Commit vote of a validator
\* with a usable key and no signature bytes
C27_Witness ==
    /\ Done
    /\ Len(Sigs) = 1
    /\ IsCommitVote(Sigs[1])
    /\ IsKnown(Sigs[1])
    /\ Sigs[1].signature = <<>>
    /\ ~HasNoKey(Sigs[1])
    /\ O.invalidSignatures = <<AddrHex(Sigs[1].validatorAddress)>>
    /\ O.countedSignatures = 0
    /\ O.signedPower = 0

(* C28 *)

\* a Commit-flag signature of a validator of the set that verifies under the
\* key the CryptoIndex holds for its address
IsVerifiedVote(s) ==
    /\ IsSignedKnownVote(s)
    /\ ~HasNoKey(s)
    /\ Ed25519Verify(cryptoIndex[AddrHex(s.validatorAddress)],
                     s.signature, VoteBytes(s)) = "true"

VotesWhere(P(_)) == {j \in 1..Len(Sigs) : P(Sigs[j])}

\* the power of the validator of the set with the address of signature j
PowerOfVote(j) == PowerOf(vset.validators[CHOOSE i \in Holders(Sigs[j]) : TRUE])

\* C28: every Commit-flag signature is unknown, invalid or verified, and only
\* one of them; in every outcome the two lists and the verified signatures
\* together are as many as the Commit-flag signatures, each list is as long
\* as its class, and signedPower is the sum, over the verified signatures, of
\* the power of the signature's validator.
C28_ThreeClasses ==
    Done =>
        /\ \A j \in VotesWhere(IsCommitVote) :
              /\ IsUnknownVote(Sigs[j]) \/ IsInvalidVote(Sigs[j]) \/ IsVerifiedVote(Sigs[j])
              /\ ~(IsUnknownVote(Sigs[j]) /\ IsInvalidVote(Sigs[j]))
              /\ ~(IsUnknownVote(Sigs[j]) /\ IsVerifiedVote(Sigs[j]))
              /\ ~(IsInvalidVote(Sigs[j]) /\ IsVerifiedVote(Sigs[j]))
        /\ Len(O.unknownValidators) + Len(O.invalidSignatures)
              + Cardinality(VotesWhere(IsVerifiedVote))
           = Cardinality(VotesWhere(IsCommitVote))
        /\ Len(O.unknownValidators) = Cardinality(VotesWhere(IsUnknownVote))
        /\ Len(O.invalidSignatures) = Cardinality(VotesWhere(IsInvalidVote))
        /\ O.signedPower =
              SumOver([j \in 1..Len(Sigs) |-> PowerOfVote(j)], VotesWhere(IsVerifiedVote))

\* the outcome of a commit of a verified vote and an invalid one: one
\* signature's power added, one address listed
C28_Witness ==
    /\ Done
    /\ Cardinality(VotesWhere(IsCommitVote)) = 2
    /\ Cardinality(VotesWhere(IsVerifiedVote)) = 1
    /\ Len(O.invalidSignatures) = 1
    /\ O.unknownValidators = <<>>
    /\ \E j \in VotesWhere(IsVerifiedVote) : O.signedPower = PowerOfVote(j)
    /\ O.signedPower > 0

(* C29 *)

\* C29: verifying a commit against the validator set with its validators in
\* another order (same members, same powers, same total) gives the outcome of
\* the first verification, field by field.
C29_OrderOfSetIrrelevant ==
    (Done /\ reordered) =>
        /\ baseline # None
        /\ O.ok = baseline[1].ok
        /\ O.quorum = baseline[1].quorum
        /\ O.signedPower = baseline[1].signedPower
        /\ O.totalPower = baseline[1].totalPower
        /\ O.headerTime = baseline[1].headerTime
        /\ O.appHash = baseline[1].appHash
        /\ O.blockIdHash = baseline[1].blockIdHash
        /\ O.unknownValidators = baseline[1].unknownValidators
        /\ O.invalidSignatures = baseline[1].invalidSignatures
        /\ O.countedSignatures = baseline[1].countedSignatures

\* the second outcome for a set of validators of different powers, the only
\* verified vote being that of the validator now in first position
C29_Witness ==
    /\ Done
    /\ reordered
    /\ Len(vset.validators) = 2
    /\ PowerOf(vset.validators[1]) # PowerOf(vset.validators[2])
    /\ Len(Sigs) = 1
    /\ VerifiesUnder(vset.validators[1], Sigs[1])
    /\ O.signedPower = PowerOf(vset.validators[1])
    /\ O.signedPower > 0

(* C30 *)

\* verifyCommit was called with the results of the imports as they are
Unmodified ==
    /\ pc # "idle"
    /\ sh = signedHeader[1]
    /\ vset = VerifierSet(imported[1].proto)
    /\ cryptoIndex = imported[1].cryptoIndex

\* C30: a validator set returned by importValidators is not empty, has
\* distinct addresses and a positive total; a SignedHeader returned by
\* importCommit has header and commit with equal heights and a block id with
\* non-empty hashes and a non-negative integer parts total; verifyCommit
\* called with them as they are violates no precondition and never throws.
C30_ImportedPassPreconditions ==
    /\ Imported =>
          /\ V.validators # <<>>
          /\ \A i, j \in 1..Len(V.validators) :
                i # j => V.validators[i].address # V.validators[j].address
          /\ V.totalVotingPower # BigZero
    /\ CommitImported =>
          /\ signedHeader[1].header # None
          /\ signedHeader[1].commit # None
          /\ ImportedHeader.height = signedHeader[1].commit[1].height
          /\ signedHeader[1].commit[1].blockId # None
          /\ LET bid == signedHeader[1].commit[1].blockId[1] IN
                /\ bid.hash # <<>>
                /\ bid.partSetHeader # None
                /\ bid.partSetHeader[1].hash # <<>>
                /\ bid.partSetHeader[1].total.num >= 0
                /\ bid.partSetHeader[1].total.num % bid.partSetHeader[1].total.den = 0
    /\ Unmodified =>
          /\ pc # "thrown"
          /\ ~PreconditionViolated

\* the outcome of verifyCommit for the imported fixtures as they are: every
\* signature of the commit counted and verified, a quorum
C30_Witness ==
    /\ Unmodified
    /\ Done
    /\ O.ok
    /\ O.countedSignatures = Len(JsonSignatures)
    /\ O.countedSignatures > 0
    /\ O.invalidSignatures = <<>>
    /\ O.unknownValidators = <<>>

====
